---- MODULE Spec2Model ----
(***************************************************************************)
(* A model of the rmcp conformance client and server binaries, of the      *)
(* trait-based tool wrappers of rmcp and of the response framing of the    *)
(* streamable-HTTP server.                                                  *)
(*                                                                         *)
(* One run of the model is one run of one program: `program` selects the   *)
(* binary or harness, and for the conformance client `scenario` is the     *)
(* value of MCP_CONFORMANCE_SCENARIO that main() dispatches on.            *)
(***************************************************************************)
EXTENDS Integers, Sequences, FiniteSets, TLC

VARIABLES
    program,      \* which program this run is: "client", "server", "client_handler", "tool_traits", "http"
    \* ---- conformance client (src/conformance/src/bin/client.rs)
    scenario,     \* MCP_CONFORMANCE_SCENARIO
    pc,           \* position of the scenario runner
    attempt,      \* run_auth_scope_retry_limit_client: `attempt`
    got_403,      \* run_auth_scope_retry_limit_client: `got_403`
    authLog,      \* the authorization requests started, in order
    sessions,     \* the MCP sessions opened, in order: "open" | "closed"
    tools,        \* the result of the last tools/list
    idx,          \* index of the tool the `for tool in &tools.tools` loop is at
    callLog,      \* the tools/call requests sent, in order, with their outcome
    result,       \* the runner's return value: "pending" | "Ok" | an error message
    trace,        \* the calls the runner has made, in order
    exit,         \* what main returned: "pending" | "Ok" | an error message
    \* ---- conformance server (src/conformance/src/bin/server.rs), one call_tool at a time
    request,      \* the CallToolRequestParams being handled, with the request's progress token
    spc,          \* position of the call_tool handler
    step,         \* index of the notification loop of the handler
    notifications,\* the notify_* calls the handler has made, in order
    response,     \* what call_tool returned: Pending | Ok(CallToolResult) | Err(ErrorData)
    \* ---- a server-initiated request and the client handler that answers it
    peer,         \* the ClientHandler at the other end
    nested,       \* the sampling / elicitation request sent to the client, if any
    answer,       \* the client's answer to it, if any
    \* ---- trait-based tools (src/crates/rmcp/src/handler/server/router/tool/tool_traits.rs)
    tool,         \* the tool T the wrappers are instantiated with
    param,        \* the Parameters(params) handed to the wrappers
    wrapped,      \* what each wrapper returned: wrapper name -> Pending | Ok | Err
    invoked,      \* the calls of T::invoke made so far: which wrapper, with which parameter
    \* ---- streamable-HTTP server, as the tests of
    \* src/crates/rmcp/tests/test_streamable_http_json_response.rs drive it
    config,       \* StreamableHttpServerConfig { stateful_mode, json_response }
    http_sessions,\* the session ids the server has allocated
    post,         \* the last POST: its frame, its Mcp-Session-Id header, the handler's events
    http_response,\* the HTTP response to it
    \* ---- tool_attribute::<T>() (tool_traits.rs) and the record of the #[tool] macro
    base,         \* T's implementation of ToolBase: what each of its methods returns
    attr,         \* the Tool tool_attribute::<T>() returned, if called
    macro_attr,   \* the Tool the #[tool] macro generated for the same method, if asked
    \* ---- run_client_credentials_jwt and openssl_free_ec_sign (client.rs)
    ctx,          \* the ConformanceContext: client_id, private_key_pem, signing_algorithm
    jpc,          \* position of run_client_credentials_jwt
    token_endpoint,\* metadata.token_endpoint as discovered, if any
    assertion,    \* what openssl_free_ec_sign returned: Pending | Ok(jwt) | Err
    posted,       \* the form POSTed to the token endpoint, if any
    jwt_result,   \* the runner's return value: "pending" | "Ok" | an error message
    issued,       \* the claims of the assertions signed so far, in order
    \* ---- the conformance server's resources (server.rs)
    read_request, \* the URI of the last resources/read, if any
    read_response,\* what read_resource returned for it
    subscriptions,\* the HashSet behind the Arc<Mutex<..>> all sessions share
    lock,         \* the session whose handler holds the mutex, if any
    ops,          \* per session, the subscribe / unsubscribe call being handled
    completed,    \* the subscribe / unsubscribe calls that have returned, in order
    \* ---- build_tool_arguments on its own (client.rs)
    arg_tool,     \* the Tool the function was given, if any
    arg_result    \* what it returned

clientVars ==
    <<scenario, pc, attempt, got_403, authLog, sessions, tools, idx, callLog, result, trace,
      exit>>

serverVars == <<request, spc, step, notifications, response>>

peerVars == <<peer, nested, answer>>

toolVars == <<tool, param, wrapped, invoked>>

httpVars == <<config, http_sessions, post, http_response>>

attrVars == <<base, attr, macro_attr>>

\* the state of the programs other than the conformance binaries, the wrappers and
\* the HTTP server
jwtVars == <<ctx, jpc, token_endpoint, assertion, posted, jwt_result, issued>>

resVars == <<read_request, read_response, subscriptions, lock, ops, completed>>

argVars == <<arg_tool, arg_result>>

moreVars == <<attrVars, jwtVars, resVars, argVars>>

restVars == <<httpVars, moreVars>>

vars == <<program, clientVars, serverVars, peerVars, toolVars, httpVars, moreVars>>

\* what an action of the conformance client leaves alone
notClient == <<program, exit, serverVars, peerVars, toolVars, restVars>>

-----------------------------------------------------------------------------
(* Bounds of the model *)

\* the longest tools/list result a server of the model returns
MaxTools == 2

\* the most server-initiated events a handler produces while it serves one POST
MaxEvents == 2

\* the most sessions a stateful server of the model allocates
MaxSessions == 2

\* how many assertions the model lets the client-credentials runner sign
MaxAssertions == 2

\* how many subscribe / unsubscribe calls the sessions of the model make
MaxCalls == 3

-----------------------------------------------------------------------------
(* Option<T> *)

None == [some |-> FALSE]

Some(x) == [some |-> TRUE, val |-> x]

-----------------------------------------------------------------------------
(* The conformance client: helpers *)

\* JSON values build_tool_arguments produces, by declared type: json!(1.0) (an f64,
\* written in tenths), json!(1), json!("test"), json!(true), json!(null);
\* type_str is the Option of prop_schema.get("type").and_then(|t| t.as_str())
TypeValue(type_str) ==
    CASE type_str = Some("number")  -> [t |-> "number",  v |-> 10]
      [] type_str = Some("integer") -> [t |-> "integer", v |-> 1]
      [] type_str = Some("string")  -> [t |-> "string",  v |-> "test"]
      [] type_str = Some("boolean") -> [t |-> "bool",    v |-> TRUE]
      [] OTHER                      -> [t |-> "null",    v |-> "null"]

\* value.get(key).and_then(|t| t.as_str()): None for a value that is no object, for a
\* missing key and for a member that is no string
GetStr(value, key) ==
    IF value.t = "object" /\ key \in DOMAIN value.v /\ value.v[key].t = "string"
    THEN Some(value.v[key].v) ELSE None

\* schema.get("properties").and_then(|p| p.as_object())
SchemaProperties(schema) ==
    IF "properties" \in DOMAIN schema /\ schema["properties"].t = "object"
    THEN Some(schema["properties"].v) ELSE None

\* schema.get("required").and_then(|r| r.as_array())
\*     .map(|arr| arr.iter().filter_map(|v| v.as_str()..).collect()).unwrap_or_default(),
\* as the set `required.contains` asks
SchemaRequired(schema) ==
    IF "required" \in DOMAIN schema /\ schema["required"].t = "array"
    THEN LET arr == schema["required"].v IN
         { arr[i].v : i \in { j \in 1..Len(arr) : arr[j].t = "string" } }
    ELSE {}

\* a slip in the loop: the `continue` for the names not required left out
build_tool_arguments_AllProperties(t) ==
    LET schema == t.input_schema
        properties == SchemaProperties(schema)
        required == SchemaRequired(schema)
    IN IF ~properties.some THEN None
       ELSE IF DOMAIN properties.val = {} /\ required = {} THEN None
       ELSE Some([name \in DOMAIN properties.val
                      |-> TypeValue(GetStr(properties.val[name], "type"))])

\* build_tool_arguments: t.input_schema is the JSON object of the schema, a function
\* from its keys to JSON values
build_tool_arguments(t) ==
    LET schema == t.input_schema
        properties == SchemaProperties(schema)
        required == SchemaRequired(schema)
    IN IF ~properties.some THEN None
       ELSE IF DOMAIN properties.val = {} /\ required = {} THEN None
       ELSE Some([name \in { n \in DOMAIN properties.val : n \in required }
                      |-> TypeValue(GetStr(properties.val[name], "type"))])

\* The tools a server of the model lists (two tools of the conformance server:
\* one without properties, one with a required string property).
ToolCatalogue ==
    { [name |-> "test_simple_text",
       input_schema |-> [properties |-> [t |-> "object", v |-> << >>]]],
      [name |-> "test_sampling",
       input_schema |->
          [properties |->
              [t |-> "object",
               v |-> [p \in {"prompt"} |->
                        [t |-> "object",
                         v |-> [k \in {"type"} |-> [t |-> "string", v |-> "string"]]]]],
           required |-> [t |-> "array", v |-> <<[t |-> "string", v |-> "prompt"]>>]]] }

RECURSIVE SeqsUpTo(_, _)
SeqsUpTo(S, n) ==
    IF n = 0 THEN { << >> }
    ELSE LET shorter == SeqsUpTo(S, n - 1) IN
         shorter \cup { Append(s, x) : s \in { t \in shorter : Len(t) = n - 1 }, x \in S }

ToolLists == SeqsUpTo(ToolCatalogue, MaxTools)

\* scopes a 403 insufficient_scope challenge may name
ChallengeScopes == {"foo.admin", "foo.write"}

\* what a tools/call can come back with, as the runners see it
CallOutcomes == [status : {"ok"}, scope : {"-"}] \cup [status : {"forbidden"}, scope : ChallengeScopes]

AuthStepScenarios == {"auth/scope-step-up", "auth/scope-retry-limit"}

\* scenarios main() gives to run_auth_client and run_auth_preregistered_client
PlainScenarios == {"auth/basic-cimd", "auth/pre-registration", "auth/resource-mismatch"}

\* the scenarios with an authorization-code flow
Scenarios == AuthStepScenarios \cup PlainScenarios

\* run_elicitation_defaults_client and run_sse_retry_client: one tool is looked for
FindScenarios == {"elicitation-sep1034-client-defaults", "sse-retry"}

\* the scenarios without authorization: run_basic_client, run_tools_call_client, ..
BasicScenarios == {"initialize", "tools_call"} \cup FindScenarios

\* the runners that call every tool and ignore the outcome
LenientScenarios == PlainScenarios \cup {"auth/client-credentials-basic"}

AllScenarios == Scenarios \cup BasicScenarios \cup {"auth/client-credentials-basic"}

\* the names `tools.tools.iter().find(..)` looks for
TargetNames ==
    IF scenario = "sse-retry" THEN {"test_reconnection"}
    ELSE {"test_client_elicitation_defaults", "test_elicitation_sep1034_defaults"}

\* the tools a server lists in the scenarios that look for one
FindCatalogue ==
    { [name |-> n, input_schema |-> [properties |-> [t |-> "object", v |-> << >>]]] :
        n \in {"test_simple_text", "test_elicitation_sep1034_defaults", "test_reconnection"} }

FindToolLists == SeqsUpTo(FindCatalogue, MaxTools)

\* `let max_retries = 3u32;`
max_retries == 3

\* anyhow!("Scope retry limit reached")
ErrRetryLimit == "Scope retry limit reached"

\* the scopes argument both runners hand to start_authorization_with_metadata_url: `&[]`
RequestedScopes == {}

Fail(msg) ==
    /\ result' = msg
    /\ pc' = "done"

-----------------------------------------------------------------------------
(* The conformance client: the authorization round shared by the step-up   *)
(* and the retry-limit runner (OAuthState::new .. serve)                    *)

\* the runners with an authorization-code flow: run_auth_client (perform_oauth_flow),
\* run_auth_preregistered_client (perform_oauth_flow_preregistered) and the two
\* scope runners
InAuthRunner == program = "client" /\ scenario \in Scenarios /\ result = "pending"

\* any runner of the conformance client that has not returned
InRunner == program = "client" /\ scenario \in AllScenarios /\ result = "pending"

Preregistered == scenario = "auth/pre-registration"

\* the runner makes the call `e`
Call(e) == trace' = Append(trace, e)

\* what the authorization endpoint may answer to the k-th authorization request: no
\* Location header, or a redirect whose query may lack the code or the state
Redirects(k) ==
    {None} \cup
    { Some([code |-> c, state |-> st]) :
        c \in {None, Some(<<"code", k>>)},
        st \in {None, Some(<<"state", k>>)} }

\* OAuthState::new(server_url, None).await?
OAuthNew ==
    /\ InAuthRunner /\ ~Preregistered /\ pc = "new"
    /\ Call("new")
    /\ \/ pc' = "start_authorization" /\ UNCHANGED result
       \/ Fail("OAuthState::new failed")
    /\ UNCHANGED notClient
    /\ UNCHANGED <<scenario, attempt, got_403, authLog, sessions, tools, idx, callLog>>

\* oauth.start_authorization_with_metadata_url(&[], REDIRECT_URI, ..).await?
\* (discovery, registration or CIMD, and the authorization request's parameters)
StartAuthorization ==
    /\ InAuthRunner /\ pc = "start_authorization"
    /\ Call("discover")
    /\ authLog' = Append(authLog, [scopes |-> RequestedScopes, exchanged |-> FALSE,
                                   redirect |-> None, callback |-> None])
    /\ \/ pc' = "get_authorization_url" /\ UNCHANGED result
       \/ Fail("start_authorization failed")
    /\ UNCHANGED notClient
    /\ UNCHANGED <<scenario, attempt, got_403, sessions, tools, idx, callLog>>

\* run_auth_preregistered_client: client_id and client_secret of the context
PreregReadContext ==
    /\ InAuthRunner /\ Preregistered /\ pc = "new"
    /\ \E context \in [client_id : {None, Some("client-a")},
                       client_secret : {None, Some("secret")}] :
        IF context.client_id = None THEN Fail("Missing client_id in context")
        ELSE IF context.client_secret = None THEN Fail("Missing client_secret in context")
        ELSE pc' = "manager_new" /\ UNCHANGED result
    /\ UNCHANGED notClient
    /\ UNCHANGED <<scenario, attempt, got_403, authLog, sessions, tools, idx, callLog, trace>>

\* AuthorizationManager::new(server_url).await?
PreregManagerNew ==
    /\ InAuthRunner /\ Preregistered /\ pc = "manager_new"
    /\ Call("new")
    /\ \/ pc' = "discover_metadata" /\ UNCHANGED result
       \/ Fail("AuthorizationManager::new failed")
    /\ UNCHANGED notClient
    /\ UNCHANGED <<scenario, attempt, got_403, authLog, sessions, tools, idx, callLog>>

\* manager.discover_metadata().await?; set_metadata; configure_client(config)?;
\* manager.select_scopes(None, &[])
PreregDiscover ==
    /\ InAuthRunner /\ Preregistered /\ pc = "discover_metadata"
    /\ Call("discover")
    /\ \/ /\ \E scopes \in {{}, {"mcp:basic"}} :
               authLog' = Append(authLog, [scopes |-> scopes, exchanged |-> FALSE,
                                           redirect |-> None, callback |-> None])
          /\ pc' = "get_authorization_url" /\ UNCHANGED result
       \/ /\ \E msg \in {"discover_metadata failed", "configure_client failed"} : Fail(msg)
          /\ UNCHANGED authLog
    /\ UNCHANGED notClient
    /\ UNCHANGED <<scenario, attempt, got_403, sessions, tools, idx, callLog>>

\* oauth.get_authorization_url().await? / manager.get_authorization_url(&scope_refs).await?
GetAuthorizationUrl ==
    /\ InAuthRunner /\ pc = "get_authorization_url"
    /\ Call("authorization_url")
    /\ \/ pc' = "headless_authorize" /\ UNCHANGED result
       \/ Fail("get_authorization_url failed")
    /\ UNCHANGED notClient
    /\ UNCHANGED <<scenario, attempt, got_403, authLog, sessions, tools, idx, callLog>>

\* the error of a redirect that lacks a part, by runner
RedirectError(part) ==
    IF Preregistered
    THEN CASE part = "location" -> "No Location header"
           [] part = "code"     -> "No code"
           [] part = "state"    -> "No state"
    ELSE CASE part = "location" -> "No Location header in auth redirect"
           [] part = "code"     -> "No code in redirect URL"
           [] part = "state"    -> "No state in redirect URL"

\* headless_authorize(&auth_url).await? and its inlined copies: the GET without
\* following redirects, then location, code, state
HeadlessAuthorize ==
    /\ InAuthRunner /\ pc = "headless_authorize"
    /\ Call("redirect")
    /\ \/ /\ \E r \in Redirects(Len(authLog)) :
               /\ authLog' = [authLog EXCEPT ![Len(authLog)].redirect = Some(r)]
               /\ IF r = None THEN Fail(RedirectError("location"))
                  ELSE IF r.val.code = None THEN Fail(RedirectError("code"))
                  ELSE IF r.val.state = None THEN Fail(RedirectError("state"))
                  ELSE pc' = "handle_callback" /\ UNCHANGED result
       \/ Fail("authorization request failed") /\ UNCHANGED authLog
    /\ UNCHANGED notClient
    /\ UNCHANGED <<scenario, attempt, got_403, sessions, tools, idx, callLog>>

\* a slip in the arguments: the code and state of the runner's first redirect
HandleCallback_FirstRedirect ==
    /\ InAuthRunner /\ pc = "handle_callback"
    /\ Call("token_exchange")
    /\ LET r == authLog[1].redirect.val.val
           args == Some([code |-> r.code.val, state |-> r.state.val])
       IN \/ /\ authLog' = [authLog EXCEPT ![Len(authLog)].callback = args,
                                           ![Len(authLog)].exchanged = TRUE]
             /\ pc' = "serve"
             /\ UNCHANGED result
          \/ /\ authLog' = [authLog EXCEPT ![Len(authLog)].callback = args]
             /\ Fail("token exchange failed")
    /\ UNCHANGED notClient
    /\ UNCHANGED <<scenario, attempt, got_403, sessions, tools, idx, callLog>>

\* oauth.handle_callback(&code, &state).await? /
\* manager.exchange_code_for_token(&code, &state).await?  (the token exchange)
HandleCallback ==
    /\ InAuthRunner /\ pc = "handle_callback"
    /\ Call("token_exchange")
    /\ LET r == authLog[Len(authLog)].redirect.val.val
           args == Some([code |-> r.code.val, state |-> r.state.val])
       IN \/ /\ authLog' = [authLog EXCEPT ![Len(authLog)].callback = args,
                                           ![Len(authLog)].exchanged = TRUE]
             /\ pc' = "serve"
             /\ UNCHANGED result
          \/ /\ authLog' = [authLog EXCEPT ![Len(authLog)].callback = args]
             /\ Fail("token exchange failed")
    /\ UNCHANGED notClient
    /\ UNCHANGED <<scenario, attempt, got_403, sessions, tools, idx, callLog>>

\* a slip in the order: the transport is made once the redirect is read
Serve_BeforeExchange ==
    /\ InRunner /\ pc \in {"serve", "handle_callback"}
    /\ Call("initialize")
    /\ \/ /\ sessions' = Append(sessions, "open")
          /\ pc' = IF scenario = "auth/scope-step-up" /\ Len(sessions) = 1
                   THEN "retry_call" ELSE "list_tools"
          /\ UNCHANGED result
       \/ Fail("serve failed") /\ UNCHANGED sessions
    /\ UNCHANGED notClient
    /\ UNCHANGED <<scenario, attempt, got_403, authLog, tools, idx, callLog>>

\* BasicClientHandler.serve(transport).await?  (opens the MCP session: initialize)
Serve ==
    /\ InRunner /\ pc = "serve"
    /\ Call("initialize")
    /\ \/ /\ sessions' = Append(sessions, "open")
          /\ pc' = IF scenario = "auth/scope-step-up" /\ Len(sessions) = 1
                   THEN "retry_call" ELSE "list_tools"
          /\ UNCHANGED result
       \/ Fail("serve failed") /\ UNCHANGED sessions
    /\ UNCHANGED notClient
    /\ UNCHANGED <<scenario, attempt, got_403, authLog, tools, idx, callLog>>

\* client.list_tools(Default::default()).await?
ListTools ==
    /\ InRunner /\ pc = "list_tools"
    /\ Call("tools/list")
    /\ \/ /\ \E ts \in (IF scenario \in FindScenarios THEN FindToolLists ELSE ToolLists) :
               /\ tools' = ts
               /\ idx' = IF scenario = "initialize" THEN Len(ts) + 1 ELSE 1
          /\ got_403' = FALSE
          /\ pc' = "call_tool"
          /\ UNCHANGED result
       \/ Fail("tools/list failed") /\ UNCHANGED <<tools, idx, got_403>>
    /\ UNCHANGED notClient
    /\ UNCHANGED <<scenario, attempt, authLog, sessions, callLog>>

CallEntry(session, t, outcome) ==
    [session |-> session, name |-> t.name, arguments |-> build_tool_arguments(t),
     status |-> outcome.status, scope |-> outcome.scope]

-----------------------------------------------------------------------------
(* run_auth_client and run_auth_preregistered_client *)

\* `let _ = client.call_tool(..).await;` for each tool
PlainCallTool ==
    /\ InRunner /\ scenario \in LenientScenarios
    /\ pc = "call_tool" /\ idx <= Len(tools)
    /\ Call("tools/call")
    /\ \E outcome \in CallOutcomes :
        callLog' = Append(callLog, CallEntry(Len(sessions), tools[idx], outcome))
    /\ idx' = idx + 1
    /\ UNCHANGED notClient
    /\ UNCHANGED <<scenario, pc, attempt, got_403, authLog, sessions, tools, result>>

\* a slip at the end of the runner: Ok(()) without the cancel
PlainFinish_NoCancel ==
    /\ InRunner /\ scenario \in LenientScenarios \cup BasicScenarios
    /\ pc = "call_tool" /\ idx > Len(tools)
    /\ result' = "Ok" /\ pc' = "done"
    /\ UNCHANGED notClient
    /\ UNCHANGED <<scenario, attempt, got_403, authLog, sessions, tools, idx, callLog, trace>>

\* client.cancel().await?; Ok(())
PlainFinish ==
    /\ InRunner /\ scenario \in LenientScenarios \cup BasicScenarios
    /\ pc = "call_tool" /\ idx > Len(tools)
    /\ Call("close")
    /\ \/ /\ sessions' = [sessions EXCEPT ![Len(sessions)] = "closed"]
          /\ result' = "Ok" /\ pc' = "done"
       \/ Fail("cancel failed") /\ UNCHANGED sessions
    /\ UNCHANGED notClient
    /\ UNCHANGED <<scenario, attempt, got_403, authLog, tools, idx, callLog>>

-----------------------------------------------------------------------------
(* run_client_credentials_basic, the runners without authorization, and main *)

\* AuthorizationManager::new?, discover_metadata?, the POST of
\* grant_type=client_credentials with basic auth, and the access_token of the answer
ClientCredentialsToken ==
    /\ InRunner /\ scenario = "auth/client-credentials-basic" /\ pc = "new"
    /\ \/ /\ trace' = trace \o <<"new", "discover", "token_request">>
          /\ \/ pc' = "serve" /\ UNCHANGED result
             \/ \E msg \in {"token request failed", "No access_token in response"} : Fail(msg)
       \/ /\ trace' = trace \o <<"new", "discover">>
          /\ Fail("discover_metadata failed")
       \/ /\ Call("new")
          /\ Fail("AuthorizationManager::new failed")
    /\ UNCHANGED notClient
    /\ UNCHANGED <<scenario, attempt, got_403, authLog, sessions, tools, idx, callLog>>

\* a slip in run_tools_call_client: the outcome of the call ignored
StrictCallTool_Lenient ==
    /\ InRunner /\ scenario = "tools_call"
    /\ pc = "call_tool" /\ idx <= Len(tools)
    /\ Call("tools/call")
    /\ \E outcome \in CallOutcomes :
        callLog' = Append(callLog, CallEntry(Len(sessions), tools[idx], outcome))
    /\ idx' = idx + 1
    /\ UNCHANGED notClient
    /\ UNCHANGED <<scenario, pc, attempt, got_403, authLog, sessions, tools, result>>

\* run_tools_call_client: `let _ = client.call_tool(..).await?;` for each tool
StrictCallTool ==
    /\ InRunner /\ scenario = "tools_call"
    /\ pc = "call_tool" /\ idx <= Len(tools)
    /\ Call("tools/call")
    /\ \E outcome \in CallOutcomes :
        /\ callLog' = Append(callLog, CallEntry(Len(sessions), tools[idx], outcome))
        /\ IF outcome.status = "ok"
           THEN idx' = idx + 1 /\ UNCHANGED <<pc, result>>
           ELSE Fail("tools/call failed") /\ UNCHANGED idx
    /\ UNCHANGED notClient
    /\ UNCHANGED <<scenario, attempt, got_403, authLog, sessions, tools>>

\* run_elicitation_defaults_client / run_sse_retry_client:
\* if let Some(tool) = tools.tools.iter().find(..) { client.call_tool(.., arguments: None)? }
FindCallTool ==
    /\ InRunner /\ scenario \in FindScenarios
    /\ pc = "call_tool" /\ idx <= Len(tools)
    /\ LET found == { i \in 1..Len(tools) : tools[i].name \in TargetNames } IN
       IF found = {}
       THEN /\ idx' = Len(tools) + 1
            /\ UNCHANGED <<callLog, trace, pc, result>>
       ELSE LET i == CHOOSE i \in found : \A j \in found : i <= j IN
            /\ Call("tools/call")
            /\ \E outcome \in CallOutcomes :
                /\ callLog' = Append(callLog,
                       [session |-> Len(sessions), name |-> tools[i].name,
                        arguments |-> None, status |-> outcome.status,
                        scope |-> outcome.scope])
                /\ IF outcome.status = "ok"
                   THEN idx' = Len(tools) + 1 /\ UNCHANGED <<pc, result>>
                   ELSE Fail("tools/call failed") /\ UNCHANGED idx
    /\ UNCHANGED notClient
    /\ UNCHANGED <<scenario, attempt, got_403, authLog, sessions, tools>>

\* a slip in main: the `?` kept on the auth/resource-mismatch arm
MainReturn_Propagate ==
    /\ program = "client" /\ result # "pending" /\ exit = "pending"
    /\ exit' = result
    /\ UNCHANGED <<program, serverVars, peerVars, toolVars, restVars>>
    /\ UNCHANGED <<scenario, pc, attempt, got_403, authLog, sessions, tools, idx, callLog,
                   result, trace>>

\* main: `run_..(..).await?` then Ok(()); the auth/resource-mismatch arm logs either
\* outcome of run_auth_client and goes on
MainReturn ==
    /\ program = "client" /\ result # "pending" /\ exit = "pending"
    /\ exit' = IF scenario = "auth/resource-mismatch" THEN "Ok" ELSE result
    /\ UNCHANGED <<program, serverVars, peerVars, toolVars, restVars>>
    /\ UNCHANGED <<scenario, pc, attempt, got_403, authLog, sessions, tools, idx, callLog,
                   result, trace>>

-----------------------------------------------------------------------------
(* run_auth_scope_retry_limit_client *)

\* one iteration of `for tool in &tools.tools { match client.call_tool(..).await {..} }`
RetryLimitCallTool ==
    /\ InAuthRunner /\ scenario = "auth/scope-retry-limit"
    /\ pc = "call_tool" /\ idx <= Len(tools)
    /\ Call("tools/call")
    /\ \E outcome \in CallOutcomes :
        /\ callLog' = Append(callLog, CallEntry(Len(sessions), tools[idx], outcome))
        /\ IF outcome.status = "ok"
           THEN idx' = idx + 1 /\ UNCHANGED <<got_403, pc>>
           ELSE got_403' = TRUE /\ pc' = "cancel" /\ UNCHANGED idx
    /\ UNCHANGED notClient
    /\ UNCHANGED <<scenario, attempt, authLog, sessions, tools, result>>

\* the loop ran out of tools
RetryLimitLoopEnd ==
    /\ InAuthRunner /\ scenario = "auth/scope-retry-limit"
    /\ pc = "call_tool" /\ idx > Len(tools)
    /\ pc' = "cancel"
    /\ UNCHANGED notClient
    /\ UNCHANGED <<scenario, attempt, got_403, authLog, sessions, tools, idx, callLog,
                   result, trace>>

\* a slip in the comparison with the limit: `>` for `>=`
RetryLimitEndRound_StrictlyGreater ==
    /\ InAuthRunner /\ scenario = "auth/scope-retry-limit"
    /\ pc = "cancel"
    /\ Call("close")
    /\ sessions' = [sessions EXCEPT ![Len(sessions)] = "closed"]
    /\ IF ~got_403
       THEN /\ result' = "Ok" /\ pc' = "done" /\ UNCHANGED attempt
       ELSE /\ attempt' = attempt + 1
            /\ IF attempt + 1 > max_retries
               THEN result' = ErrRetryLimit /\ pc' = "done"
               ELSE pc' = "new" /\ UNCHANGED result
    /\ UNCHANGED notClient
    /\ UNCHANGED <<scenario, got_403, authLog, tools, idx, callLog>>

\* client.cancel().await.ok(); if !got_403 { break } attempt += 1;
\* if attempt >= max_retries { return Err(..) }
RetryLimitEndRound ==
    /\ InAuthRunner /\ scenario = "auth/scope-retry-limit"
    /\ pc = "cancel"
    /\ Call("close")
    /\ sessions' = [sessions EXCEPT ![Len(sessions)] = "closed"]
    /\ IF ~got_403
       THEN /\ result' = "Ok" /\ pc' = "done" /\ UNCHANGED attempt
       ELSE /\ attempt' = attempt + 1
            /\ IF attempt + 1 >= max_retries
               THEN result' = ErrRetryLimit /\ pc' = "done"
               ELSE pc' = "new" /\ UNCHANGED result
    /\ UNCHANGED notClient
    /\ UNCHANGED <<scenario, got_403, authLog, tools, idx, callLog>>

-----------------------------------------------------------------------------
(* run_auth_scope_step_up_client *)

\* one iteration of the first session's tool loop
StepUpCallTool ==
    /\ InAuthRunner /\ scenario = "auth/scope-step-up"
    /\ pc = "call_tool" /\ idx <= Len(tools)
    /\ \E outcome \in CallOutcomes :
        /\ callLog' = Append(callLog, CallEntry(Len(sessions), tools[idx], outcome))
        /\ IF outcome.status = "ok"
           THEN /\ idx' = idx + 1
                /\ Call("tools/call")
                /\ UNCHANGED <<sessions, pc>>
           ELSE \* Err(_): client.cancel().await.ok(), then the full flow again
                /\ sessions' = [sessions EXCEPT ![Len(sessions)] = "closed"]
                /\ trace' = trace \o <<"tools/call", "close">>
                /\ pc' = "new"
                /\ UNCHANGED idx
    /\ UNCHANGED notClient
    /\ UNCHANGED <<scenario, attempt, got_403, authLog, tools, result>>

\* a slip in the retry: `?` on the retried call for `let _ =`
StepUpRetryCall_Propagate ==
    /\ InAuthRunner /\ scenario = "auth/scope-step-up"
    /\ pc = "retry_call"
    /\ \E outcome \in CallOutcomes :
        /\ callLog' = Append(callLog, CallEntry(Len(sessions), tools[idx], outcome))
        /\ IF outcome.status = "ok"
           THEN /\ trace' = trace \o <<"tools/call", "close">>
                /\ sessions' = [sessions EXCEPT ![Len(sessions)] = "closed"]
                /\ result' = "Ok"
           ELSE /\ trace' = Append(trace, "tools/call")
                /\ result' = "tools/call failed"
                /\ UNCHANGED sessions
    /\ pc' = "done"
    /\ UNCHANGED notClient
    /\ UNCHANGED <<scenario, attempt, got_403, authLog, tools, idx>>

\* let _ = client2.call_tool(..same name, same args..).await;
\* client2.cancel().await.ok(); return Ok(())
StepUpRetryCall ==
    /\ InAuthRunner /\ scenario = "auth/scope-step-up"
    /\ pc = "retry_call"
    /\ \E outcome \in CallOutcomes :
        callLog' = Append(callLog, CallEntry(Len(sessions), tools[idx], outcome))
    /\ trace' = trace \o <<"tools/call", "close">>
    /\ sessions' = [sessions EXCEPT ![Len(sessions)] = "closed"]
    /\ result' = "Ok"
    /\ pc' = "done"
    /\ UNCHANGED notClient
    /\ UNCHANGED <<scenario, attempt, got_403, authLog, tools, idx>>

\* no tool call failed: client.cancel().await?; Ok(())
StepUpFinish ==
    /\ InAuthRunner /\ scenario = "auth/scope-step-up"
    /\ pc = "call_tool" /\ idx > Len(tools)
    /\ Call("close")
    /\ \/ /\ sessions' = [sessions EXCEPT ![Len(sessions)] = "closed"]
          /\ result' = "Ok" /\ pc' = "done"
       \/ Fail("cancel failed") /\ UNCHANGED sessions
    /\ UNCHANGED notClient
    /\ UNCHANGED <<scenario, attempt, got_403, authLog, tools, idx, callLog>>

ClientInit ==
    /\ pc = IF scenario \in BasicScenarios THEN "serve" ELSE "new"
    /\ exit = "pending"
    /\ attempt = 0
    /\ got_403 = FALSE
    /\ authLog = << >>
    /\ sessions = << >>
    /\ tools = << >>
    /\ idx = 1
    /\ callLog = << >>
    /\ result = "pending"
    /\ trace = << >>

-----------------------------------------------------------------------------
(* Client handlers (client.rs): what the client answers to a request the   *)
(* server sends it while a tools/call is pending                            *)

\* A string built by format!: the sequence of its pieces.
Str(s) == <<s>>

\* Result<T, ErrorData>
Ok(x) == [tag |-> "Ok", val |-> x]

Err(e) == [tag |-> "Err", err |-> e]

Pending == [tag |-> "Pending"]

\* ErrorData::invalid_params / internal_error / method_not_found (code, message)
ErrorData(code, message) == [code |-> code, message |-> message]

\* JSON values
JString(s) == [t |-> "string", v |-> s]

\* an f64; the model writes it in tenths (95.5 is 955)
JNumber(d) == [t |-> "number", v |-> d]

JInteger(i) == [t |-> "integer", v |-> i]

JBool(b) == [t |-> "bool", v |-> b]

JArray(a) == [t |-> "array", v |-> a]

JObject(m) == [t |-> "object", v |-> m]

\* a slip in the enum arm: the multi-select defaults are dropped
EnumDefault_SingleOnly(e) ==
    CASE e.kind \in {"EnumSingleUntitled", "EnumSingleTitled"} ->
            IF e.default.some THEN Some(JString(e.default.val)) ELSE None
      [] OTHER -> None

\* PrimitiveSchema::Enum(e): `let val = match e { .. }`
EnumDefault(e) ==
    CASE e.kind \in {"EnumSingleUntitled", "EnumSingleTitled"} ->
            IF e.default.some THEN Some(JString(e.default.val)) ELSE None
      [] e.kind \in {"EnumMultiUntitled", "EnumMultiTitled"} ->
            IF e.default.some
            THEN Some(JArray([i \in 1..Len(e.default.val) |-> JString(e.default.val[i])]))
            ELSE None
      [] e.kind = "EnumLegacy" -> None

\* the default a property's PrimitiveSchema contributes, as
\* ElicitationDefaultsClientHandler::create_elicitation reads it
PropertyDefault(prop) ==
    CASE prop.kind = "String"  ->
            IF prop.default.some THEN Some(JString(prop.default.val)) ELSE None
      [] prop.kind = "Number"  ->
            IF prop.default.some THEN Some(JNumber(prop.default.val)) ELSE None
      [] prop.kind = "Integer" ->
            IF prop.default.some THEN Some(JInteger(prop.default.val)) ELSE None
      [] prop.kind = "Boolean" ->
            IF prop.default.some THEN Some(JBool(prop.default.val)) ELSE None
      [] OTHER -> EnumDefault(prop)

\* ElicitationDefaultsClientHandler::create_elicitation
ElicitationDefaults_create_elicitation(req) ==
    LET content ==
            IF req.kind = "form"
            THEN LET properties == req.requested_schema IN
                 Some(JObject([name \in {n \in DOMAIN properties : PropertyDefault(properties[n]).some}
                                  |-> PropertyDefault(properties[name]).val]))
            ELSE Some(JObject(<< >>))
    IN Ok([action |-> "accept", content |-> content])

\* FullClientHandler::create_elicitation
Full_create_elicitation(req) ==
    Ok([action |-> "accept",
        content |-> Some(JObject([k \in {"username", "email"} |->
                        IF k = "username" THEN JString("testuser")
                        ELSE JString("test@example.com")]))])

\* the first text of the first sampling message, or ""
PromptText(params) ==
    IF params.messages = << >> THEN << >>
    ELSE LET m == params.messages[1] IN
         IF m.content = << >> THEN << >>
         ELSE IF m.content[1].type = "text" THEN m.content[1].text ELSE << >>

\* a slip in the mock answer: the prompt left out
Full_create_message_NoPrompt(params) ==
    Ok([message |-> [role |-> "assistant",
                     content |-> << [type |-> "text",
                                     text |-> Str("This is a mock LLM response to: ")] >>],
        model |-> "mock-model",
        stop_reason |-> Some("endTurn")])

\* FullClientHandler::create_message
Full_create_message(params) ==
    Ok([message |-> [role |-> "assistant",
                     content |-> << [type |-> "text",
                                     text |-> Str("This is a mock LLM response to: ")
                                                \o PromptText(params)] >>],
        model |-> "mock-model",
        stop_reason |-> Some("endTurn")])

\* A method the handler does not implement.
MethodNotFound(method) == Err(ErrorData("method_not_found", Str(method)))

ClientHandlers == {"BasicClientHandler", "ElicitationDefaultsClientHandler", "FullClientHandler"}

\* the answer of handler h to server-initiated request req
HandlerAnswer(h, req) ==
    CASE req.method = "elicitation/create" /\ h = "ElicitationDefaultsClientHandler" ->
            ElicitationDefaults_create_elicitation(req)
      [] req.method = "elicitation/create" /\ h = "FullClientHandler" ->
            Full_create_elicitation(req)
      [] req.method = "sampling/createMessage" /\ h = "FullClientHandler" ->
            Full_create_message(req)
      [] OTHER -> MethodNotFound(req.method)

\* The PrimitiveSchema shapes of an elicitation schema.
PrimitiveSchemas ==
         [kind : {"String"}, default : {None, Some("John Doe")}]
    \cup [kind : {"Number"}, default : {None, Some(955)}]
    \cup [kind : {"Integer"}, default : {None, Some(30)}]
    \cup [kind : {"Boolean"}, default : {None, Some(TRUE), Some(FALSE)}]
    \cup [kind : {"EnumSingleUntitled", "EnumSingleTitled"}, default : {None, Some("active")}]
    \cup [kind : {"EnumMultiUntitled", "EnumMultiTitled"},
          default : {None, Some(<< >>), Some(<<"value1", "value3">>)}]
    \cup [kind : {"EnumLegacy"}]

\* the property names of the elicitation requests of the model
PropertyNames == {"name", "status"}

ElicitationSchemas ==
    UNION { [names -> PrimitiveSchemas] : names \in SUBSET PropertyNames }

FormElicitation(message, schema) ==
    [method |-> "elicitation/create", kind |-> "form", message |-> message,
     requested_schema |-> schema]

\* the elicitation requests a server may send
ElicitationRequests ==
    { FormElicitation(Str("Please provide values"), schema) : schema \in ElicitationSchemas }
    \cup { [method |-> "elicitation/create", kind |-> "url", message |-> Str("Open the page")] }

\* A client handler is handed a request of some server and answers it.
HandleElicitation ==
    /\ program = "client_handler"
    /\ nested.some /\ ~answer.some
    /\ answer' = Some(HandlerAnswer(peer, nested.val))
    /\ UNCHANGED <<program, clientVars, serverVars, toolVars, restVars, peer, nested>>

-----------------------------------------------------------------------------
(* The conformance server (server.rs): list_tools and call_tool            *)

\* a slip in the list: the last tool left out
list_tools_Short ==
    << "test_simple_text", "test_image_content", "test_audio_content",
       "test_embedded_resource", "test_multiple_content_types", "test_tool_with_logging",
       "test_error_handling", "test_tool_with_progress", "test_sampling", "test_elicitation",
       "test_elicitation_sep1034_defaults", "test_elicitation_sep1330_enums",
       "json_schema_2020_12_tool" >>

\* the names list_tools returns, in order
list_tools ==
    << "test_simple_text", "test_image_content", "test_audio_content",
       "test_embedded_resource", "test_multiple_content_types", "test_tool_with_logging",
       "test_error_handling", "test_tool_with_progress", "test_sampling", "test_elicitation",
       "test_elicitation_sep1034_defaults", "test_elicitation_sep1330_enums",
       "json_schema_2020_12_tool", "test_reconnection" >>

ListedNames == { list_tools[i] : i \in 1..Len(list_tools) }

\* names a client may ask for that the server does not have
UnknownNames == {"no_such_tool", ""}

\* the string patterns of the arms of `match request.name.as_ref()` in call_tool
CallToolArms ==
    { "test_simple_text", "test_image_content", "test_audio_content",
      "test_embedded_resource", "test_multiple_content_types", "test_tool_with_logging",
      "test_error_handling", "test_tool_with_progress", "test_sampling", "test_elicitation",
      "test_elicitation_sep1034_defaults", "test_elicitation_sep1330_enums",
      "json_schema_2020_12_tool", "test_reconnection" }

\* the `arguments` of the requests of the model
ArgumentChoices ==
    { None,
      Some(<< >>),
      Some([k \in {"prompt"} |-> JString("Summarize")]),
      Some([k \in {"prompt"} |-> JInteger(7)]),
      Some([k \in {"message"} |-> JString("Who are you?")]),
      Some([k \in {"name"} |-> JString("Ferris")]) }

\* the progress tokens of the requests of the model (_meta.progressToken)
ProgressTokens == {None, Some("t1"), Some("t2")}

CallToolRequests ==
    [name : ListedNames \cup CallToolArms \cup UnknownNames, arguments : ArgumentChoices,
     progress_token : ProgressTokens]

\* args.get(key).and_then(|v| v.as_str()).unwrap_or(dflt), with
\* args = request.arguments.unwrap_or_default()
ArgStrOr(req, key, dflt) ==
    IF req.arguments.some /\ key \in DOMAIN req.arguments.val
       /\ req.arguments.val[key].t = "string"
    THEN req.arguments.val[key].v
    ELSE dflt

Text(pieces) == [type |-> "text", text |-> pieces]

Image(data, mime) == [type |-> "image", data |-> data, mime_type |-> mime]

Audio(data, mime) == [type |-> "audio", data |-> data, mime_type |-> mime]

EmbeddedText(uri, mime, text) ==
    [type |-> "resource", uri |-> uri, mime_type |-> mime, text |-> text]

\* CallToolResult { content, structured_content: None, is_error, meta: None }
CallToolResult(content, is_error) == [content |-> content, is_error |-> is_error]

\* a slip in the test_error_handling arm: is_error left unset
ErrorHandlingResult_NotFlagged ==
    Ok(CallToolResult(
        <<Text(Str("This tool intentionally returns an error for testing"))>>, None))

\* the "test_error_handling" arm of call_tool
ErrorHandlingResult ==
    Ok(CallToolResult(
        <<Text(Str("This tool intentionally returns an error for testing"))>>, Some(TRUE)))

\* the arms of call_tool that answer without talking to the client, and `_ =>`
ImmediateResult(req) ==
    CASE req.name = "test_simple_text" ->
            Ok(CallToolResult(<<Text(Str("This is a simple text response for testing."))>>, None))
      [] req.name = "test_image_content" ->
            Ok(CallToolResult(<<Image("TEST_IMAGE_DATA", "image/png")>>, None))
      [] req.name = "test_audio_content" ->
            Ok(CallToolResult(<<Audio("TEST_AUDIO_DATA", "audio/wav")>>, None))
      [] req.name = "test_embedded_resource" ->
            Ok(CallToolResult(
                <<EmbeddedText("test://embedded-resource", "text/plain",
                               "This is an embedded resource content.")>>, None))
      [] req.name = "test_multiple_content_types" ->
            Ok(CallToolResult(
                << Text(Str("Multiple content types test:")),
                   Image("TEST_IMAGE_DATA", "image/png"),
                   EmbeddedText("test://mixed-content-resource", "application/json",
                                "{\"test\":\"data\",\"value\":123}") >>, None))
      [] req.name = "test_error_handling" -> ErrorHandlingResult
      [] req.name = "json_schema_2020_12_tool" ->
            Ok(CallToolResult(
                <<Text(<<"Hello, ", ArgStrOr(req, "name", "world"), "!">>)>>, None))
      [] req.name = "test_reconnection" ->
            Ok(CallToolResult(<<Text(Str("Reconnection test completed"))>>, None))
      [] OTHER ->
            Err(ErrorData("invalid_params", <<"Unknown tool: ", req.name>>))

\* a slip in the table of messages: the first one left out
LoggingMessages_TwoOnly ==
    <<"Tool processing data", "Tool execution completed">>

\* the messages of test_tool_with_logging, in order
LoggingMessages ==
    <<"Tool execution started", "Tool processing data", "Tool execution completed">>

\* a slip in the table of progress values: the last two swapped
ProgressSteps_Swapped ==
    << [progress |-> 0, message |-> "Starting"],
       [progress |-> 100, message |-> "Complete"],
       [progress |-> 50, message |-> "Halfway"] >>

\* the (progress, message) pairs of test_tool_with_progress, in order
ProgressSteps ==
    << [progress |-> 0, message |-> "Starting"],
       [progress |-> 50, message |-> "Halfway"],
       [progress |-> 100, message |-> "Complete"] >>

\* the elicitation schemas the server sends
Schema_test_elicitation ==
    [k \in {"username", "email"} |-> [kind |-> "String", default |-> None]]

Schema_sep1034 ==
    [k \in {"name", "age", "score", "status", "verified"} |->
        CASE k = "name"     -> [kind |-> "String", default |-> Some("John Doe")]
          [] k = "age"      -> [kind |-> "Integer", default |-> Some(30)]
          [] k = "score"    -> [kind |-> "Number", default |-> Some(955)]
          [] k = "status"   -> [kind |-> "EnumSingleUntitled", default |-> Some("active")]
          [] k = "verified" -> [kind |-> "Boolean", default |-> Some(TRUE)]]

Schema_sep1330 ==
    [k \in {"untitledSingle", "titledSingle", "legacyEnum", "untitledMulti", "titledMulti"} |->
        CASE k = "untitledSingle" -> [kind |-> "EnumSingleUntitled", default |-> None]
          [] k = "titledSingle"   -> [kind |-> "EnumSingleTitled", default |-> None]
          [] k = "legacyEnum"     -> [kind |-> "EnumLegacy"]
          [] k = "untitledMulti"  -> [kind |-> "EnumMultiUntitled", default |-> None]
          [] k = "titledMulti"    -> [kind |-> "EnumMultiTitled", default |-> None]]

NestedTools ==
    {"test_sampling", "test_elicitation", "test_elicitation_sep1034_defaults",
     "test_elicitation_sep1330_enums"}

\* the request a tool sends to the client (cx.peer.create_message / create_elicitation)
NestedRequest(req) ==
    CASE req.name = "test_sampling" ->
            [method |-> "sampling/createMessage",
             messages |-> << [role |-> "user",
                              content |-> <<Text(Str(ArgStrOr(req, "prompt", "Hello")))>>] >>,
             max_tokens |-> 100]
      [] req.name = "test_elicitation" ->
            FormElicitation(Str(ArgStrOr(req, "message", "Please provide your information")),
                            Schema_test_elicitation)
      [] req.name = "test_elicitation_sep1034_defaults" ->
            FormElicitation(Str("Please provide values (all have defaults)"), Schema_sep1034)
      [] req.name = "test_elicitation_sep1330_enums" ->
            FormElicitation(Str("Test enum schema improvements"), Schema_sep1330)

\* result.message.content.first().and_then(as_text).map(text).unwrap_or("No text response")
FirstTextOr(content, dflt) ==
    IF content # << >> /\ content[1].type = "text" THEN content[1].text ELSE dflt

\* what a nested tool returns once the client has answered with `ans`
NestedResult(req, ans) ==
    IF ans.tag = "Err"
    THEN Ok(CallToolResult(
            <<Text(<<IF req.name = "test_sampling" THEN "Sampling error: "
                     ELSE "Elicitation error: ", ans.err>>)>>,
            Some(TRUE)))
    ELSE CASE req.name = "test_sampling" ->
                Ok(CallToolResult(
                    <<Text(Str("LLM response: ")
                           \o FirstTextOr(ans.val.message.content, Str("No text response")))>>,
                    None))
           [] req.name = "test_elicitation" ->
                Ok(CallToolResult(
                    <<Text(<<"User response: action=", ans.val.action, ", content=",
                             ans.val.content>>)>>, None))
           [] req.name = "test_elicitation_sep1034_defaults" ->
                Ok(CallToolResult(
                    <<Text(<<"Elicitation completed: action=", ans.val.action, ", content=",
                             ans.val.content>>)>>, None))
           [] req.name = "test_elicitation_sep1330_enums" ->
                Ok(CallToolResult(
                    <<Text(<<"Enum elicitation completed: action=", ans.val.action>>)>>, None))

\* a tools/call arrives; the arms without an await answer at once
ReceiveCallTool ==
    /\ program = "server"
    /\ spc = "idle"
    /\ \E req \in CallToolRequests :
        /\ request' = Some(req)
        /\ notifications' = << >>
        /\ step' = 1
        /\ answer' = None
        /\ CASE req.name = "test_tool_with_logging" ->
                    spc' = "logging" /\ response' = Pending /\ nested' = None
             [] req.name = "test_tool_with_progress" ->
                    spc' = "progress" /\ response' = Pending /\ nested' = None
             [] req.name \in NestedTools ->
                    spc' = "await_client" /\ response' = Pending
                    /\ nested' = Some(NestedRequest(req))
             [] OTHER ->
                    spc' = "done" /\ response' = ImmediateResult(req) /\ nested' = None
    /\ UNCHANGED <<program, clientVars, toolVars, restVars, peer>>

\* test_tool_with_logging: `let _ = cx.peer.notify_logging_message(..).await;` and the sleep
NotifyLogging ==
    /\ program = "server" /\ spc = "logging" /\ step <= Len(LoggingMessages)
    /\ \E delivered \in BOOLEAN :
        notifications' = Append(notifications,
            [method |-> "notifications/message", level |-> "info",
             logger |-> Some("conformance-server"), data |-> JString(LoggingMessages[step]),
             delivered |-> delivered])
    /\ step' = step + 1
    /\ UNCHANGED <<program, clientVars, peerVars, toolVars, restVars, request, spc, response>>

LoggingReturn ==
    /\ program = "server" /\ spc = "logging" /\ step > Len(LoggingMessages)
    /\ response' = Ok(CallToolResult(<<Text(Str("Logging test completed"))>>, None))
    /\ spc' = "done"
    /\ UNCHANGED <<program, clientVars, peerVars, toolVars, restVars, request, step, notifications>>

\* a slip in the loop: `?` on the notify call for `let _ =`
NotifyProgress_Propagate ==
    /\ program = "server" /\ spc = "progress" /\ step <= Len(ProgressSteps)
    /\ LET progress_token == request.val.progress_token IN
       IF progress_token.some
       THEN \E delivered \in BOOLEAN :
               /\ notifications' = Append(notifications,
                      [method |-> "notifications/progress",
                       progress_token |-> progress_token.val,
                       progress |-> ProgressSteps[step].progress,
                       total |-> Some(100),
                       message |-> Some(ProgressSteps[step].message),
                       delivered |-> delivered])
               /\ IF delivered
                  THEN UNCHANGED <<spc, response>>
                  ELSE /\ response' = Err(ErrorData("transport", Str("closed")))
                       /\ spc' = "done"
       ELSE UNCHANGED <<notifications, spc, response>>
    /\ step' = step + 1
    /\ UNCHANGED <<program, clientVars, peerVars, toolVars, restVars, request>>

\* test_tool_with_progress: one iteration of the loop: a notify_progress when the
\* request carries a token, and the sleep
NotifyProgress ==
    /\ program = "server" /\ spc = "progress" /\ step <= Len(ProgressSteps)
    /\ LET progress_token == request.val.progress_token IN
       IF progress_token.some
       THEN \E delivered \in BOOLEAN :
               notifications' = Append(notifications,
                   [method |-> "notifications/progress",
                    progress_token |-> progress_token.val,
                    progress |-> ProgressSteps[step].progress,
                    total |-> Some(100),
                    message |-> Some(ProgressSteps[step].message),
                    delivered |-> delivered])
       ELSE UNCHANGED notifications
    /\ step' = step + 1
    /\ UNCHANGED <<program, clientVars, peerVars, toolVars, restVars, request, spc, response>>

ProgressReturn ==
    /\ program = "server" /\ spc = "progress" /\ step > Len(ProgressSteps)
    /\ response' = Ok(CallToolResult(<<Text(Str("Progress test completed"))>>, None))
    /\ spc' = "done"
    /\ UNCHANGED <<program, clientVars, peerVars, toolVars, restVars, request, step, notifications>>

\* the client answers the nested request (or the request fails on the way), and
\* the tool returns
ClientAnswers ==
    /\ program = "server" /\ spc = "await_client"
    /\ \E ans \in {HandlerAnswer(peer, nested.val), Err(ErrorData("transport", Str("closed")))} :
        /\ answer' = Some(ans)
        /\ response' = NestedResult(request.val, ans)
    /\ spc' = "done"
    /\ UNCHANGED <<program, clientVars, toolVars, restVars, peer, nested, request, step, notifications>>

\* the response has been sent and the handler's task is over
CallToolDone ==
    /\ program = "server" /\ spc = "done"
    /\ request' = None
    /\ spc' = "idle"
    /\ step' = 1
    /\ notifications' = << >>
    /\ response' = Pending
    /\ nested' = None
    /\ answer' = None
    /\ UNCHANGED <<program, clientVars, toolVars, restVars, peer>>

ServerIdle ==
    /\ request = None
    /\ spc = "idle"
    /\ step = 1
    /\ notifications = << >>
    /\ response = Pending

-----------------------------------------------------------------------------
(* Trait-based tools (tool_traits.rs): the wrappers around T::invoke       *)

\* usize is 64 bits wide: four 16-bit limbs, least significant first
LimbBase == 65536

USizeZero == <<0, 0, 0, 0>>

USizeOne == <<1, 0, 0, 0>>

USizeMax == <<65535, 65535, 65535, 65535>>

RECURSIVE AddLimbs(_, _, _, _)
AddLimbs(a, b, i, carry) ==
    IF i > Len(a) THEN << >>
    ELSE LET t == a[i] + b[i] + carry IN
         <<t % LimbBase>> \o AddLimbs(a, b, i + 1, t \div LimbBase)

\* usize::wrapping_add
wrapping_add(a, b) == AddLimbs(a, b, 1, 0)

\* the Json<T> wrapper
Json(o) == [json |-> o]

\* .map(Json)
MapJson(r) == IF r.tag = "Ok" THEN Ok(Json(r.val)) ELSE r

\* impl From<EmptyToolCustomError> for ErrorData
EmptyToolCustomError_into(value) ==
    CASE value = "Internal"      -> ErrorData("internal_error", Str("internal error"))
      [] value = "InvalidParams" -> ErrorData("invalid_params", Str("invalid params"))

\* T::Error: Into<ErrorData>
Into(error_type, e) ==
    IF error_type = "ErrorData" THEN e ELSE EmptyToolCustomError_into(e)

\* .map_err(Into::into)
MapErrInto(error_type, r) == IF r.tag = "Err" THEN Err(Into(error_type, r.err)) ELSE r

USizes == {USizeZero, USizeOne, USizeMax}

AddParameters == [left : USizes, right : USizes]

\* tests::AddTool: SyncTool::invoke and AsyncTool::invoke
AddTool_invoke(p) == Ok([sum |-> wrapping_add(p.left, p.right)])

AddTool ==
    [name |-> "adder", error_type |-> "ErrorData",
     default |-> [left |-> USizeZero, right |-> USizeZero],
     sync |-> [p \in AddParameters |-> AddTool_invoke(p)],
     async |-> [p \in AddParameters |-> AddTool_invoke(p)]]

\* tests::EmptyTool: SyncTool::invoke fails with Internal, AsyncTool::invoke with InvalidParams
EmptyTool ==
    [name |-> "empty", error_type |-> "EmptyToolCustomError",
     default |-> "unit",
     sync |-> [p \in {"unit"} |-> Err("Internal")],
     async |-> [p \in {"unit"} |-> Err("InvalidParams")]]

\* Any other implementation of SyncTool and AsyncTool: its two invoke functions are
\* arbitrary functions from its parameters to Result<Output, Error>.
TableParameters == {0, 1}

TableResults == {Ok(1), Err("Internal"), Err("InvalidParams")}

TableTools ==
    { [name |-> "table", error_type |-> "EmptyToolCustomError", default |-> 0,
       sync |-> s, async |-> a] :
        s \in [TableParameters -> TableResults], a \in [TableParameters -> TableResults] }

ToolImpls == {AddTool, EmptyTool} \cup TableTools

\* a slip in the error path: every error is reported as an internal error
sync_tool_wrapper_InternalOnly(T, params) ==
    LET r == MapJson(T.sync[params]) IN
    IF r.tag = "Err" THEN Err(ErrorData("internal_error", Str("internal error"))) ELSE r

sync_tool_wrapper(T, params) ==
    MapErrInto(T.error_type, MapJson(T.sync[params]))

\* a slip in the error path: the result of invoke is unwrapped
sync_tool_wrapper_with_empty_params_Unwrap(T) ==
    LET r == T.sync[T.default] IN
    IF r.tag = "Err" THEN [tag |-> "Panic"] ELSE Ok(Json(r.val))

sync_tool_wrapper_with_empty_params(T) ==
    MapErrInto(T.error_type, MapJson(T.sync[T.default]))

\* a slip between the two async wrappers: the parameters are dropped for the default
async_tool_wrapper_DefaultParams(T, params) ==
    MapErrInto(T.error_type, MapJson(T.async[T.default]))

\* the wrapper's future, awaited
async_tool_wrapper(T, params) ==
    MapErrInto(T.error_type, MapJson(T.async[params]))

async_tool_wrapper_with_empty_params(T) ==
    MapErrInto(T.error_type, MapJson(T.async[T.default]))

Wrappers == {"sync", "sync_empty", "async", "async_empty"}

\* a wrapper is called: it hands `p` to T::invoke and returns r
CallWrapper(w, p, r) ==
    /\ program = "tool_traits"
    /\ wrapped[w].tag = "Pending"
    /\ invoked' = Append(invoked, [wrapper |-> w, param |-> p])
    /\ wrapped' = [wrapped EXCEPT ![w] = r]
    /\ UNCHANGED <<program, clientVars, serverVars, peerVars, restVars, tool, param>>

CallSyncToolWrapper == CallWrapper("sync", param, sync_tool_wrapper(tool, param))

CallSyncToolWrapperWithEmptyParams ==
    CallWrapper("sync_empty", tool.default, sync_tool_wrapper_with_empty_params(tool))

CallAsyncToolWrapper == CallWrapper("async", param, async_tool_wrapper(tool, param))

CallAsyncToolWrapperWithEmptyParams ==
    CallWrapper("async_empty", tool.default, async_tool_wrapper_with_empty_params(tool))

ToolIdle ==
    /\ tool = EmptyTool
    /\ param = "unit"
    /\ wrapped = [w \in Wrappers |-> Pending]
    /\ invoked = << >>

ToolInit ==
    /\ tool \in ToolImpls
    /\ param \in DOMAIN tool.sync
    /\ wrapped = [w \in Wrappers |-> Pending]
    /\ invoked = << >>

-----------------------------------------------------------------------------
(* The streamable-HTTP server: how the response to a POST is framed        *)

\* the request ids of the model
RequestIds == {1, 2}

RequestMethods == {"initialize", "tools/list", "tools/call"}

RequestFrames == [jsonrpc : {"2.0"}, kind : {"request"}, id : RequestIds, method : RequestMethods]

NotificationFrames ==
    [jsonrpc : {"2.0"}, kind : {"notification"},
     method : {"notifications/initialized", "notifications/cancelled"}]

\* the response frame to request frame f
ResponseFrame(f) ==
    [jsonrpc |-> "2.0", kind |-> "response", id |-> f.id,
     result |-> [t |-> "object", of |-> f.method]]

\* the i-th event the handler produced while it served f
EventFrame(f, i) ==
    [jsonrpc |-> "2.0", kind |-> "notification", method |-> "notifications/progress",
     progress |-> i]

\* slips in the choice of the framing
ResponseContentType_AlwaysSse(cfg) == "text/event-stream"

ResponseContentType_JsonWhenStateless(cfg) ==
    IF ~cfg.stateful_mode THEN "application/json" ELSE "text/event-stream"

ResponseContentType_JsonWhenAsked(cfg) ==
    IF cfg.json_response THEN "application/json" ELSE "text/event-stream"

\* the Content-Type of the response to a request
ResponseContentType(cfg) ==
    IF ~cfg.stateful_mode /\ cfg.json_response
    THEN "application/json"
    ELSE "text/event-stream"

\* the body of an SSE response: the handler's events, then the response frame, each a
\* `data:` event with its `id:`
SseBody(f, events) ==
    [kind |-> "sse",
     events |-> [i \in 1..(events + 1) |->
                    [id |-> i,
                     data |-> IF i <= events THEN EventFrame(f, i) ELSE ResponseFrame(f)]]]

JsonBody(f) == [kind |-> "json", frame |-> ResponseFrame(f)]

HttpResponse(status, content_type, session_id, body) ==
    [status |-> status, content_type |-> content_type, session_id |-> session_id,
     body |-> body]

HttpFrame == <<program, clientVars, serverVars, peerVars, toolVars, config, moreVars>>

\* a notification from the client: 202 Accepted, empty body
PostNotification ==
    /\ program = "http"
    /\ \E f \in NotificationFrames :
        post' = [frame |-> f, session_id |-> None, events |-> 0]
    /\ http_response' = HttpResponse(202, None, None, [kind |-> "empty"])
    /\ UNCHANGED <<HttpFrame, http_sessions>>

\* stateless mode: every POST of a request is served to completion on its own; the
\* handler's events are not delivered
PostStateless ==
    /\ program = "http" /\ ~config.stateful_mode
    /\ \E f \in RequestFrames, events \in 0..MaxEvents :
        /\ post' = [frame |-> f, session_id |-> None, events |-> events]
        /\ http_response' =
              HttpResponse(200, Some(ResponseContentType(config)), None,
                  IF ResponseContentType(config) = "application/json"
                  THEN JsonBody(f) ELSE SseBody(f, 0))
    /\ UNCHANGED <<HttpFrame, http_sessions>>

\* stateful mode: initialize allocates the session
PostInitialize ==
    /\ program = "http" /\ config.stateful_mode
    /\ Cardinality(http_sessions) < MaxSessions
    /\ \E f \in {r \in RequestFrames : r.method = "initialize"}, events \in 0..MaxEvents :
        LET sid == Cardinality(http_sessions) + 1 IN
        /\ post' = [frame |-> f, session_id |-> None, events |-> events]
        /\ http_sessions' = http_sessions \cup {sid}
        /\ http_response' =
              HttpResponse(200, Some(ResponseContentType(config)), Some(sid),
                  IF ResponseContentType(config) = "application/json"
                  THEN JsonBody(f) ELSE SseBody(f, events))
    /\ UNCHANGED HttpFrame

\* stateful mode: a request that carries the id of a session of the server
PostInSession ==
    /\ program = "http" /\ config.stateful_mode
    /\ \E f \in {r \in RequestFrames : r.method # "initialize"}, sid \in http_sessions,
          events \in 0..MaxEvents :
        /\ post' = [frame |-> f, session_id |-> Some(sid), events |-> events]
        /\ http_response' =
              HttpResponse(200, Some(ResponseContentType(config)), Some(sid),
                  IF ResponseContentType(config) = "application/json"
                  THEN JsonBody(f) ELSE SseBody(f, events))
    /\ UNCHANGED <<HttpFrame, http_sessions>>

\* stateful mode: a request with no session id, or with one the server does not know
PostUnknownSession ==
    /\ program = "http" /\ config.stateful_mode
    /\ \E f \in {r \in RequestFrames : r.method # "initialize"},
          sid \in {None} \cup {Some(n) : n \in (1..(MaxSessions + 1)) \ http_sessions} :
        post' = [frame |-> f, session_id |-> sid, events |-> 0]
    /\ http_response' = HttpResponse(404, None, None, [kind |-> "empty"])
    /\ UNCHANGED <<HttpFrame, http_sessions>>

HttpConfigs == [stateful_mode : BOOLEAN, json_response : BOOLEAN]

HttpIdle ==
    /\ http_sessions = {}
    /\ post = None
    /\ http_response = None

ClientIdle ==
    /\ scenario = "-"
    /\ pc = "idle"
    /\ attempt = 0
    /\ got_403 = FALSE
    /\ authLog = << >>
    /\ sessions = << >>
    /\ tools = << >>
    /\ idx = 1
    /\ callLog = << >>
    /\ result = "pending"
    /\ trace = << >>
    /\ exit = "pending"

-----------------------------------------------------------------------------
(* tool_attribute (tool_traits.rs) and the record the #[tool] macro makes   *)

\* schema_for_type::<Parameters<P>>() and schema_for_output::<O>(), by the type's name
schema_for_type(ty) == [type |-> "object", of |-> ty]

schema_for_output(ty) == [type |-> "object", of |-> ty]

\* the schema of a tool without parameters
schema_for_empty_input == [type |-> "object", of |-> "()"]

\* the ToolBase implementations of the model; every provided method may be overridden
ToolBaseImpls ==
    [name : {"adder", "empty"},
     title : {None, Some("Adder")},
     description : {None, Some("Modular add two integers"), Some("Empty tool")},
     input_schema : {None, Some(schema_for_type("AddParameter"))},
     output_schema : {None, Some(schema_for_output("AddOutput"))},
     annotations : {None, Some("read_only_hint")},
     execution : {None, Some("task_support")},
     icons : {None, Some(<<"icon.png">>)},
     meta : {None, Some("meta")}]

\* impl ToolBase for AddTool / for EmptyTool
AddToolBase ==
    [name |-> "adder", title |-> None, description |-> Some("Modular add two integers"),
     input_schema |-> Some(schema_for_type("AddParameter")),
     output_schema |-> Some(schema_for_output("AddOutput")),
     annotations |-> None, execution |-> None, icons |-> None, meta |-> None]

EmptyToolBase ==
    [name |-> "empty", title |-> None, description |-> Some("Empty tool"),
     input_schema |-> None, output_schema |-> None,
     annotations |-> None, execution |-> None, icons |-> None, meta |-> None]

\* a slip in tool_attribute: the output schema gets the fallback of the input schema
tool_attribute_OutputFallback(T) ==
    [name |-> T.name, title |-> T.title, description |-> T.description,
     input_schema |-> IF T.input_schema.some THEN T.input_schema.val
                      ELSE schema_for_empty_input,
     output_schema |-> IF T.output_schema.some THEN T.output_schema
                       ELSE Some(schema_for_empty_input),
     annotations |-> T.annotations, execution |-> T.execution, icons |-> T.icons,
     meta |-> T.meta]

tool_attribute(T) ==
    [name |-> T.name, title |-> T.title, description |-> T.description,
     input_schema |-> IF T.input_schema.some THEN T.input_schema.val
                      ELSE schema_for_empty_input,
     output_schema |-> T.output_schema,
     annotations |-> T.annotations, execution |-> T.execution, icons |-> T.icons,
     meta |-> T.meta]

\* the method #[tool(name = .., description = ..)] is put on, for a tool whose other
\* attributes are the trait's defaults
MacroMethod(T) ==
    [name |-> T.name, description |-> T.description,
     parameters |-> IF T.input_schema.some THEN Some(T.input_schema.val.of) ELSE None,
     output |-> IF T.output_schema.some THEN Some(T.output_schema.val.of) ELSE None]

\* the Tool of the generated `<method>_tool_attr()`
tool_macro_attr(method) ==
    [name |-> method.name, title |-> None, description |-> method.description,
     input_schema |-> IF method.parameters.some THEN schema_for_type(method.parameters.val)
                      ELSE schema_for_empty_input,
     output_schema |-> IF method.output.some THEN Some(schema_for_output(method.output.val))
                       ELSE None,
     annotations |-> None, execution |-> None, icons |-> None, meta |-> None]

notAttr ==
    <<program, clientVars, serverVars, peerVars, toolVars, httpVars, jwtVars, resVars, argVars>>

\* tool_attribute::<T>()
CallToolAttribute ==
    /\ program = "tool_attribute" /\ attr = None
    /\ attr' = Some(tool_attribute(base))
    /\ UNCHANGED <<notAttr, base, macro_attr>>

\* MacroBasedToolServer::<method>_tool_attr()
ExpandToolMacro ==
    /\ program = "tool_attribute" /\ macro_attr = None
    /\ base.title = None /\ base.annotations = None /\ base.execution = None
    /\ base.icons = None /\ base.meta = None
    /\ macro_attr' = Some(tool_macro_attr(MacroMethod(base)))
    /\ UNCHANGED <<notAttr, base, attr>>

AttrIdle == base = EmptyToolBase /\ attr = None /\ macro_attr = None

-----------------------------------------------------------------------------
(* run_client_credentials_jwt and openssl_free_ec_sign (client.rs)          *)

\* a byte string of n bytes b
Rep(b, n) == [i \in 1..n |-> b]

\* private keys: a usable scalar, and the zero scalar SigningKey::from_bytes rejects
KeyBytes == [i \in 1..32 |-> 160 + i]

ZeroKey == Rep(0, 32)

\* the DER of a PKCS#8 P-256 key as `openssl genpkey` writes it, up to the key's
\* OCTET STRING header
Pkcs8Prefix ==
    << 48, 129, 135, 2, 1, 0, 48, 19, 6, 7, 42, 134, 72, 206, 61, 2, 1, 6, 8, 42, 134, 72,
       206, 61, 3, 1, 7, 4, 109, 48, 107, 2, 1, 1 >>

\* [1] { BIT STRING } with the public point, shortened to its header
Pkcs8Suffix == << 161, 68, 3, 66, 0, 4 >>

Pkcs8(key) == Pkcs8Prefix \o <<4, 32>> \o key \o Pkcs8Suffix

\* the length octets of a DER element of n content octets
DerLength(n) ==
    IF n < 128 THEN <<n>>
    ELSE IF n < 256 THEN <<129, n>>
    ELSE <<130, n \div 256, n % 256>>

\* a DER element: tag, length, content
Der(tag, content) == <<tag>> \o DerLength(Len(content)) \o content

\* the coefficient a of P-256
P256_a ==
    << 255, 255, 255, 255, 0, 0, 0, 1, 0, 0, 0, 0, 0, 0, 0, 0, 0, 0, 0, 0, 255, 255, 255,
       255, 255, 255, 255, 255, 255, 255, 255, 252 >>

\* the coefficient b of P-256
P256_b ==
    << 90, 198, 53, 216, 170, 58, 147, 231, 179, 235, 189, 85, 118, 152, 134, 188, 101, 29,
       6, 176, 204, 83, 176, 246, 59, 206, 60, 62, 39, 210, 96, 75 >>

\* ECParameters of P-256 written out (specifiedCurve, as `openssl -param_enc explicit`
\* writes them): version, the prime field, the curve a and b, the base point, the order
\* and the cofactor
P256Explicit ==
    Der(48,
        <<2, 1, 1>>
        \o Der(48, <<6, 7, 42, 134, 72, 206, 61, 1, 1>>
                   \o Der(2, <<0>> \o
    << 255, 255, 255, 255, 0, 0, 0, 1, 0, 0, 0, 0, 0, 0, 0, 0, 0, 0, 0, 0, 255, 255, 255,
       255, 255, 255, 255, 255, 255, 255, 255, 255 >>))
        \o Der(48, Der(4, P256_a) \o Der(4, P256_b))
        \o Der(4,
    << 4, 107, 23, 209, 242, 225, 44, 66, 71, 248, 188, 230, 229, 99, 164, 64, 242, 119, 3,
       125, 129, 45, 235, 51, 160, 244, 161, 57, 69, 216, 152, 194, 150, 79, 227, 66, 226,
       254, 26, 127, 155, 142, 231, 235, 74, 124, 15, 158, 22, 43, 206, 51, 87, 107, 49,
       94, 206, 203, 182, 64, 104, 55, 191, 81, 245 >>)
        \o Der(2, <<0>> \o
    << 255, 255, 255, 255, 0, 0, 0, 0, 255, 255, 255, 255, 255, 255, 255, 255, 188, 230,
       250, 173, 167, 23, 158, 132, 243, 185, 202, 194, 252, 99, 37, 81 >>)
        \o <<2, 1, 1>>)

\* a PKCS#8 P-256 key whose AlgorithmIdentifier carries the curve explicitly
ExplicitCurvePkcs8(key) ==
    Der(48,
        <<2, 1, 0>>
        \o Der(48, <<6, 7, 42, 134, 72, 206, 61, 2, 1>> \o P256Explicit)
        \o Der(4, Der(48, <<2, 1, 1>> \o Der(4, key))))

\* byte strings at the edges of the scan: the pair with 32, 31 and 33 octets after it,
\* the pair one octet in, the pair too close to the end, two pairs, and the empty input
EdgeDers ==
    { <<4, 32>> \o KeyBytes,
      <<4, 32>> \o SubSeq(KeyBytes, 1, 31),
      <<4, 32>> \o KeyBytes \o <<0>>,
      <<0, 4, 32>> \o KeyBytes,
      <<48, 40>> \o Rep(7, 30) \o <<4, 32>> \o Rep(9, 10),
      <<4, 32, 4, 32>> \o KeyBytes,
      << >> }

\* usize::saturating_sub
saturating_sub(a, b) == IF a >= b THEN a - b ELSE 0

\* a slip in the range of the scan: one index more
ScanEnd_OneMore(der) == saturating_sub(Len(der), 32)

\* the exclusive end of `0..der.len().saturating_sub(33)`
ScanEnd(der) == saturating_sub(Len(der), 33)

\* a slip in the scan: the last pair for the first
FirstOctetString32_Last(der) ==
    LET hits == { i \in 1..ScanEnd(der) :
                    der[i] = 4 /\ der[i + 1] = 32 /\ i + 33 <= Len(der) } IN
    IF hits = {} THEN 0 ELSE CHOOSE i \in hits : \A j \in hits : i >= j

\* the smallest index the scan of extract_ec_private_key stops at (1-based), or 0:
\* der[i] == 0x04 && der[i + 1] == 0x20 && i + 34 <= der.len(), with i one less
FirstOctetString32(der) ==
    LET hits == { i \in 1..ScanEnd(der) :
                    der[i] = 4 /\ der[i + 1] = 32 /\ i + 33 <= Len(der) } IN
    IF hits = {} THEN 0 ELSE CHOOSE i \in hits : \A j \in hits : i <= j

\* the values of `i` (0-based, as in the code) the loop body runs with: the range
\* up to the index it returns at, the whole range when it returns at none
Visited(der) ==
    LET f == FirstOctetString32(der) IN
    IF f = 0 THEN 0..(ScanEnd(der) - 1) ELSE 0..(f - 1)

extract_ec_private_key(der) ==
    LET i == FirstOctetString32(der) IN
    IF i = 0 THEN Err("Could not extract 32-byte EC private key from PKCS#8 DER")
    ELSE Ok(SubSeq(der, i + 2, i + 33))

\* the PEM files of the model: the text between the ----- lines, as base64 of a DER
\* or as text that is no base64
Pems ==
    { [base64 |-> TRUE, der |-> Pkcs8(KeyBytes)],
      [base64 |-> TRUE, der |-> Pkcs8(ZeroKey)],
      [base64 |-> TRUE, der |-> <<48, 3, 2, 1, 0>>],
      [base64 |-> FALSE, der |-> << >>],
      [base64 |-> TRUE, der |-> ExplicitCurvePkcs8(KeyBytes)] }
    \cup { [base64 |-> TRUE, der |-> d] : d \in EdgeDers }

\* base64_decode(&pem_body)
base64_decode(pem) == IF pem.base64 THEN Ok(pem.der) ELSE Err("base64 decode error")

\* base64url_encode: URL_SAFE_NO_PAD, an injective text over [A-Za-z0-9_-]
base64url_encode(data) == [base64url |-> data]

\* SystemTime::now().duration_since(UNIX_EPOCH)?.as_secs(): a u64, in limbs
Nows ==
    { <<0, 0, 0, 0>>, <<61696, 25939, 0, 0>>, <<65535, 0, 0, 0>>, <<65300, 65535, 0, 0>>,
      <<65535, 65535, 65535, 32766>> }

U64(n) == <<n, 0, 0, 0>>

JwtHeader == [alg |-> "ES256", typ |-> "JWT"]

\* a slip in the lifetime of the assertion
JwtPayload_ThirtySeconds(client_id, audience, now) ==
    [iss |-> client_id, sub |-> client_id, aud |-> audience, iat |-> now,
     exp |-> wrapping_add(now, U64(30)), jti |-> <<"jti-", now>>]

\* payload_json
JwtPayload(client_id, audience, now) ==
    [iss |-> client_id, sub |-> client_id, aud |-> audience, iat |-> now,
     exp |-> wrapping_add(now, U64(300)), jti |-> <<"jti-", now>>]

\* secret_key.sign(signing_input.as_bytes()).to_bytes()
EcdsaSign(raw_key, signing_input) == [signed_by |-> raw_key, over |-> signing_input]

\* openssl_free_ec_sign(pem, client_id, audience) at a clock that reads `clock`
\* (an Err when it is before the epoch)
openssl_free_ec_sign(pem, client_id, audience, clock) ==
    LET der == base64_decode(pem) IN
    IF der.tag = "Err" THEN der
    ELSE LET raw_key == extract_ec_private_key(der.val) IN
         IF raw_key.tag = "Err" THEN raw_key
         ELSE IF clock.tag = "Err" THEN clock
         ELSE LET header == base64url_encode(JwtHeader)
                  payload == base64url_encode(JwtPayload(client_id, audience, clock.val))
                  signing_input == <<header, ".", payload>>
              IN IF raw_key.val = ZeroKey THEN Err("Invalid EC key")
                 ELSE Ok(signing_input
                         \o <<".", base64url_encode(EcdsaSign(raw_key.val, signing_input))>>)

Contexts ==
    [client_id : {None, Some("client-a")},
     private_key_pem : {None} \cup { Some(p) : p \in Pems },
     signing_algorithm : {None, Some("ES256"), Some("RS256")}]

TokenEndpoints == {"https://as.example/token", "https://mcp.example/oauth/token"}

notJwt ==
    <<program, clientVars, serverVars, peerVars, toolVars, httpVars, attrVars, resVars, argVars>>

JwtFail(msg) == jwt_result' = msg /\ jpc' = "done"

InJwtRunner == program = "jwt" /\ jwt_result = "pending"

\* the three `let` of the context: client_id, _pem, _alg
JwtReadContext ==
    /\ InJwtRunner /\ jpc = "context"
    /\ IF ctx.private_key_pem = None THEN JwtFail("Missing private_key_pem")
       ELSE IF ctx.signing_algorithm = None THEN JwtFail("Missing signing_algorithm")
       ELSE jpc' = "discover" /\ UNCHANGED jwt_result
    /\ UNCHANGED <<notJwt, ctx, token_endpoint, assertion, posted, issued>>

\* AuthorizationManager::new(server_url).await?; manager.discover_metadata().await?
JwtDiscover ==
    /\ InJwtRunner /\ jpc = "discover"
    /\ \/ \E e \in TokenEndpoints :
            token_endpoint' = Some(e) /\ jpc' = "sign" /\ UNCHANGED jwt_result
       \/ JwtFail("metadata discovery failed") /\ UNCHANGED token_endpoint
    /\ UNCHANGED <<notJwt, ctx, assertion, posted, issued>>

\* let key = openssl_free_ec_sign(_pem, client_id, &token_endpoint)?;
JwtSign ==
    /\ InJwtRunner /\ jpc = "sign"
    /\ \E clock \in { Ok(n) : n \in Nows } \cup { Err("SystemTimeError") } :
        LET client_id == IF ctx.client_id.some THEN ctx.client_id.val
                         ELSE "conformance-test-client"
            key == openssl_free_ec_sign(ctx.private_key_pem.val, client_id,
                                        token_endpoint.val, clock)
        IN /\ assertion' = key
           /\ IF key.tag = "Err" THEN JwtFail(key.err) /\ UNCHANGED issued
              ELSE /\ jpc' = "post"
                   /\ issued' = Append(issued, key.val[3].base64url)
                   /\ UNCHANGED jwt_result
    /\ UNCHANGED <<notJwt, ctx, token_endpoint, posted>>

\* http.post(&token_endpoint).body(form_body).send().await?, and the token read
\* from the response
JwtPost ==
    /\ InJwtRunner /\ jpc = "post"
    /\ posted' = Some([url |-> token_endpoint.val,
                       grant_type |-> "client_credentials",
                       client_assertion_type |->
                           "urn:ietf:params:oauth:client-assertion-type:jwt-bearer",
                       client_assertion |-> assertion.val])
    /\ \/ jpc' = "session" /\ UNCHANGED jwt_result
       \/ \E msg \in {"token request failed", "No access_token"} : JwtFail(msg)
    /\ UNCHANGED <<notJwt, ctx, token_endpoint, assertion, issued>>

\* serve, list_tools, the calls of the tools, client.cancel().await?
JwtSession ==
    /\ InJwtRunner /\ jpc = "session"
    /\ \/ JwtFail("Ok")
       \/ \E msg \in {"serve failed", "tools/list failed", "cancel failed"} : JwtFail(msg)
    /\ UNCHANGED <<notJwt, ctx, token_endpoint, assertion, posted, issued>>

\* the scenario is run again with the same context (main, "auth/client-credentials-jwt")
JwtRunAgain ==
    /\ program = "jwt" /\ jpc = "done"
    /\ issued # << >> /\ Len(issued) < MaxAssertions
    /\ jpc' = "context"
    /\ token_endpoint' = None
    /\ assertion' = Pending
    /\ posted' = None
    /\ jwt_result' = "pending"
    /\ UNCHANGED <<notJwt, ctx, issued>>

JwtIdle ==
    /\ ctx = [client_id |-> None, private_key_pem |-> None, signing_algorithm |-> None]
    /\ jpc = "idle"
    /\ token_endpoint = None
    /\ assertion = Pending
    /\ posted = None
    /\ jwt_result = "pending"
    /\ issued = << >>

-----------------------------------------------------------------------------
(* The conformance server: read_resource, subscribe and unsubscribe          *)

\* strings the handler takes apart are sequences of characters
StaticTextUri ==
    <<"t", "e", "s", "t", ":", "/", "/", "s", "t", "a", "t", "i", "c", "-", "t", "e", "x", "t">>

StaticBinaryUri ==
    <<"t", "e", "s", "t", ":", "/", "/", "s", "t", "a", "t", "i", "c", "-", "b", "i", "n", "a",
      "r", "y">>

TemplatePrefix ==
    <<"t", "e", "s", "t", ":", "/", "/", "t", "e", "m", "p", "l", "a", "t", "e", "/">>

TemplateSuffix == <<"/", "d", "a", "t", "a">>

\* str::starts_with, str::ends_with
starts_with(s, p) == Len(p) <= Len(s) /\ SubSeq(s, 1, Len(p)) = p

ends_with(s, p) == Len(p) <= Len(s) /\ SubSeq(s, Len(s) - Len(p) + 1, Len(s)) = p

\* str::strip_prefix, str::strip_suffix
strip_prefix(s, p) == IF starts_with(s, p) THEN Some(SubSeq(s, Len(p) + 1, Len(s))) ELSE None

strip_suffix(s, p) == IF ends_with(s, p) THEN Some(SubSeq(s, 1, Len(s) - Len(p))) ELSE None

\* uri.strip_prefix("test://template/").and_then(|s| s.strip_suffix("/data"))
\*    .unwrap_or("unknown")
TemplateId(uri) ==
    LET a == strip_prefix(uri, TemplatePrefix)
        b == IF a = None THEN None ELSE strip_suffix(a.val, TemplateSuffix)
    IN IF b = None THEN <<"u", "n", "k", "n", "o", "w", "n">> ELSE b.val

TextResourceContents(uri, mime_type, text) ==
    [kind |-> "text", uri |-> uri, mime_type |-> Some(mime_type), text |-> text]

BlobResourceContents(uri, mime_type, blob) ==
    [kind |-> "blob", uri |-> uri, mime_type |-> Some(mime_type), blob |-> blob]

\* format!(r#"{{"id":"{}","templateTest":true,"data":"Data for ID: {}"}}"#, id, id)
TemplateText(id) ==
    <<"{\"id\":\"", id, "\",\"templateTest\":true,\"data\":\"Data for ID: ", id, "\"}">>

\* ConformanceServer::read_resource
read_resource(uri) ==
    IF uri = StaticTextUri
    THEN Ok(<<TextResourceContents(uri, "text/plain",
                  Str("This is the content of the static text resource."))>>)
    ELSE IF uri = StaticBinaryUri
    THEN Ok(<<BlobResourceContents(uri, "image/png", "TEST_IMAGE_DATA")>>)
    ELSE IF starts_with(uri, TemplatePrefix) /\ ends_with(uri, TemplateSuffix)
    THEN Ok(<<TextResourceContents(uri, "application/json", TemplateText(TemplateId(uri)))>>)
    ELSE Err(ErrorData("resource_not_found", <<"Resource not found: ", uri>>))

\* the URIs resources/read is called with
ResourceUris ==
    { <<"t", "e", "s", "t", ":", "/", "/", "s", "t", "a", "t", "i", "c", "-", "t", "e", "x",
          "t">>,
      <<"t", "e", "s", "t", ":", "/", "/", "s", "t", "a", "t", "i", "c", "-", "b", "i", "n",
          "a", "r", "y">>,
      <<"t", "e", "s", "t", ":", "/", "/", "t", "e", "m", "p", "l", "a", "t", "e", "/", "4",
          "2", "/", "d", "a", "t", "a">>,
      <<"t", "e", "s", "t", ":", "/", "/", "t", "e", "m", "p", "l", "a", "t", "e", "/", "/",
          "d", "a", "t", "a">>,
      <<"t", "e", "s", "t", ":", "/", "/", "t", "e", "m", "p", "l", "a", "t", "e", "/", "d",
          "a", "t", "a">>,
      <<"t", "e", "s", "t", ":", "/", "/", "t", "e", "m", "p", "l", "a", "t", "e", "/", "a",
          "/", "b", "/", "d", "a", "t", "a">>,
      <<"t", "e", "s", "t", ":", "/", "/", "t", "e", "m", "p", "l", "a", "t", "e", "/", "d",
          "a", "t", "a", "/", "d", "a", "t", "a">>,
      <<"t", "e", "s", "t", ":", "/", "/", "t", "e", "m", "p", "l", "a", "t", "e", "/", "4",
          "2">>,
      <<"t", "e", "s", "t", ":", "/", "/", "t", "e", "m", "p", "l", "a", "t", "e">>,
      <<"t", "e", "s", "t", ":", "/", "/", "s", "t", "a", "t", "i", "c", "-", "t", "e", "x",
          "t", "/">>,
      <<"T", "e", "s", "t", ":", "/", "/", "s", "t", "a", "t", "i", "c", "-", "t", "e", "x",
          "t">>,
      <<"f", "i", "l", "e", ":", "/", "/", "/", "x", "/", "d", "a", "t", "a">>,
      << >> }

notRes ==
    <<program, clientVars, serverVars, peerVars, toolVars, httpVars, attrVars, jwtVars, argVars>>

\* a resources/read request and its answer
ReadResource ==
    /\ program = "resources"
    /\ \E uri \in ResourceUris :
        /\ read_request' = Some(uri)
        /\ read_response' = read_resource(uri)
    /\ UNCHANGED <<notRes, subscriptions, lock, ops, completed>>

\* the sessions of the model (main clones the server for each) and the URIs they
\* subscribe to
SessionIds == {"s1", "s2"}

SubscriptionUris == {"test://static-text", "test://watched"}

\* HashSet::insert
HashSetInsert(subs, uri) == subs \cup {uri}

\* a slip in unsubscribe: the URI is left in the set
HashSetRemove_Keep(subs, uri) == subs

\* HashSet::remove
HashSetRemove(subs, uri) == subs \ {uri}

\* a resources/subscribe or resources/unsubscribe request reaches the handler of session s
SubscriptionCall(s) ==
    /\ program = "resources" /\ ops[s] = None
    /\ Len(completed) + Cardinality({ t \in SessionIds : ops[t] # None }) < MaxCalls
    /\ \E kind \in {"subscribe", "unsubscribe"}, uri \in SubscriptionUris :
        ops' = [ops EXCEPT ![s] = Some([kind |-> kind, uri |-> uri])]
    /\ UNCHANGED <<notRes, read_request, read_response, subscriptions, lock, completed>>

\* let mut subs = self.subscriptions.lock().await;
LockSubscriptions(s) ==
    /\ program = "resources" /\ ops[s] # None
    /\ lock = None
    /\ lock' = Some(s)
    /\ UNCHANGED <<notRes, read_request, read_response, subscriptions, ops, completed>>

\* subs.insert(..) / subs.remove(..); Ok(()) and the guard dropped as the handler returns
SubscriptionReturn(s) ==
    /\ program = "resources" /\ lock = Some(s)
    /\ LET op == ops[s].val IN
       /\ subscriptions' = IF op.kind = "subscribe"
                           THEN HashSetInsert(subscriptions, op.uri)
                           ELSE HashSetRemove(subscriptions, op.uri)
       /\ completed' = Append(completed,
                              [session |-> s, kind |-> op.kind, uri |-> op.uri,
                               result |-> Ok("()")])
    /\ lock' = None
    /\ ops' = [ops EXCEPT ![s] = None]
    /\ UNCHANGED <<notRes, read_request, read_response>>

\* ConformanceServer::new(): no subscription
ResInit ==
    /\ read_request = None
    /\ read_response = Pending
    /\ subscriptions = {}
    /\ lock = None
    /\ ops = [s \in SessionIds |-> None]
    /\ completed = << >>

-----------------------------------------------------------------------------
(* build_tool_arguments (client.rs) applied to schemas of every shape       *)

JNull == [t |-> "null", v |-> "null"]

\* a property schema {"type": ty}
TypeSchema(ty) == JObject([k \in {"type"} |-> ty])

\* property schemas: the four types with a value, another type, no type, a type
\* that is no string, and a schema that is no object
PropertySchemas ==
    [a |-> TypeSchema(JString("number")), b |-> TypeSchema(JString("integer")),
     c |-> TypeSchema(JString("string")), d |-> TypeSchema(JString("boolean")),
     e |-> TypeSchema(JString("array")), f |-> JObject(<< >>),
     g |-> TypeSchema(JArray(<<JString("string"), JString("null")>>)),
     h |-> JBool(TRUE)]

\* the `properties` members of the schemas of the model: absent (None) or a value
PropertiesChoices ==
    { None, Some(JString("none")), Some(JNull), Some(JObject(<< >>)),
      Some(JObject(PropertySchemas)),
      Some(JObject([k \in {"c"} |-> PropertySchemas["c"]])) }

\* the `required` members of the schemas of the model: absent (None) or a value
RequiredChoices ==
    { None, Some(JString("a")), Some(JArray(<< >>)), Some(JArray(<<JInteger(5)>>)),
      Some(JArray(<<JString("zz")>>)),
      Some(JArray(<<JString("c"), JString("a"), JInteger(5), JString("zz"), JString("c")>>)),
      Some(JArray(<<JString("a"), JString("b"), JString("c"), JString("d"), JString("e"),
                    JString("f"), JString("g"), JString("h")>>)) }

\* the JSON object with the members that are present
SchemaOf(p, r) ==
    [k \in (IF p.some THEN {"properties"} ELSE {}) \cup (IF r.some THEN {"required"} ELSE {})
        |-> IF k = "properties" THEN p.val ELSE r.val]

SchemaTools ==
    { [name |-> "tool", input_schema |-> SchemaOf(p, r)] :
        p \in PropertiesChoices, r \in RequiredChoices }

\* let args = build_tool_arguments(tool);
BuildToolArguments ==
    /\ program = "build_tool_arguments"
    /\ \E t \in SchemaTools :
        /\ arg_tool' = Some(t)
        /\ arg_result' = build_tool_arguments(t)
    /\ UNCHANGED <<program, clientVars, serverVars, peerVars, toolVars, httpVars,
                   attrVars, jwtVars, resVars>>

ArgIdle == arg_tool = None /\ arg_result = None

MoreIdle == AttrIdle /\ JwtIdle /\ ResInit /\ ArgIdle

-----------------------------------------------------------------------------

PeerIdle == peer = "BasicClientHandler" /\ nested = None /\ answer = None

Init ==
    \/ /\ program = "client" /\ scenario \in AllScenarios /\ ClientInit
       /\ ServerIdle /\ PeerIdle /\ ToolIdle /\ config = None /\ HttpIdle /\ MoreIdle
    \/ /\ program = "server" /\ ClientIdle /\ ServerIdle
       /\ peer \in ClientHandlers /\ nested = None /\ answer = None
       /\ ToolIdle /\ config = None /\ HttpIdle /\ MoreIdle
    \/ /\ program = "client_handler" /\ ClientIdle /\ ServerIdle
       /\ peer = "ElicitationDefaultsClientHandler"
       /\ nested \in { Some(r) : r \in ElicitationRequests } /\ answer = None
       /\ ToolIdle /\ config = None /\ HttpIdle /\ MoreIdle
    \/ /\ program = "tool_traits" /\ ClientIdle /\ ServerIdle /\ PeerIdle
       /\ ToolInit /\ config = None /\ HttpIdle /\ MoreIdle
    \/ /\ program = "http" /\ ClientIdle /\ ServerIdle /\ PeerIdle /\ ToolIdle
       /\ config \in HttpConfigs /\ HttpIdle /\ MoreIdle
    \/ /\ program = "tool_attribute" /\ ClientIdle /\ ServerIdle /\ PeerIdle /\ ToolIdle
       /\ config = None /\ HttpIdle
       /\ base \in ToolBaseImpls /\ attr = None /\ macro_attr = None /\ JwtIdle /\ ResInit
       /\ ArgIdle
    \/ /\ program = "jwt" /\ ClientIdle /\ ServerIdle /\ PeerIdle /\ ToolIdle
       /\ config = None /\ HttpIdle /\ AttrIdle /\ ResInit /\ ArgIdle
       /\ ctx \in Contexts /\ jpc = "context" /\ token_endpoint = None
       /\ assertion = Pending /\ posted = None /\ jwt_result = "pending"
       /\ issued = << >>
    \/ /\ program = "resources" /\ ClientIdle /\ ServerIdle /\ PeerIdle /\ ToolIdle
       /\ config = None /\ HttpIdle /\ MoreIdle
    \/ /\ program = "build_tool_arguments" /\ ClientIdle /\ ServerIdle /\ PeerIdle
       /\ ToolIdle /\ config = None /\ HttpIdle /\ MoreIdle

Next ==
    \/ OAuthNew
    \/ StartAuthorization
    \/ GetAuthorizationUrl
    \/ HeadlessAuthorize
    \/ HandleCallback
    \/ Serve
    \/ ListTools
    \/ RetryLimitCallTool
    \/ RetryLimitLoopEnd
    \/ RetryLimitEndRound
    \/ StepUpCallTool
    \/ StepUpRetryCall
    \/ StepUpFinish
    \/ PreregReadContext
    \/ PreregManagerNew
    \/ PreregDiscover
    \/ PlainCallTool
    \/ PlainFinish
    \/ ClientCredentialsToken
    \/ StrictCallTool
    \/ FindCallTool
    \/ MainReturn
    \/ HandleElicitation
    \/ ReceiveCallTool
    \/ NotifyLogging
    \/ LoggingReturn
    \/ NotifyProgress
    \/ ProgressReturn
    \/ ClientAnswers
    \/ CallToolDone
    \/ CallSyncToolWrapper
    \/ CallSyncToolWrapperWithEmptyParams
    \/ CallAsyncToolWrapper
    \/ CallAsyncToolWrapperWithEmptyParams
    \/ PostNotification
    \/ PostStateless
    \/ PostInitialize
    \/ PostInSession
    \/ PostUnknownSession
    \/ CallToolAttribute
    \/ ExpandToolMacro
    \/ JwtReadContext
    \/ JwtDiscover
    \/ JwtSign
    \/ JwtPost
    \/ JwtSession
    \/ JwtRunAgain
    \/ ReadResource
    \/ \E s \in SessionIds : SubscriptionCall(s)
    \/ \E s \in SessionIds : LockSubscriptions(s)
    \/ \E s \in SessionIds : SubscriptionReturn(s)
    \/ BuildToolArguments

Spec == Init /\ [][Next]_vars

\* the steps of the two scope runners of the conformance client
ClientNext ==
    \/ OAuthNew
    \/ StartAuthorization
    \/ GetAuthorizationUrl
    \/ HeadlessAuthorize
    \/ HandleCallback
    \/ Serve
    \/ ListTools
    \/ RetryLimitCallTool
    \/ RetryLimitLoopEnd
    \/ RetryLimitEndRound
    \/ StepUpCallTool
    \/ StepUpRetryCall
    \/ StepUpFinish
    \/ PreregReadContext
    \/ PreregManagerNew
    \/ PreregDiscover
    \/ PlainCallTool
    \/ PlainFinish
    \/ ClientCredentialsToken
    \/ StrictCallTool
    \/ FindCallTool
    \/ MainReturn

\* every await of a runner returns: a runner that can take a step takes one
FairSpec == Spec /\ WF_vars(ClientNext)

\* the client at the other end answers a request it was sent (or the request fails)
AnswerSpec == Spec /\ WF_vars(ClientAnswers)

-----------------------------------------------------------------------------
(* The claims *)

IsRetryLimitRun == program = "client" /\ scenario = "auth/scope-retry-limit"

IsStepUpRun == program = "client" /\ scenario = "auth/scope-step-up"

Rejections == { i \in 1..Len(callLog) : callLog[i].status = "forbidden" }

\* C1: in the scope-retry-limit scenario, when every tool call is rejected with
\* 403, the client re-authorizes after each of the first three 403s and it is the
\* 4th 403 that surfaces as the terminal error 'Scope retry limit reached'.
C1_FourthRejectionIsTerminal ==
    (/\ IsRetryLimitRun
     /\ result = ErrRetryLimit
     /\ \A i \in 1..Len(callLog) : callLog[i].status = "forbidden")
    => /\ Cardinality(Rejections) = 4
       /\ Len(authLog) = 4

\* C2: in the scope step-up scenario the second authorization request asks for the
\* scope the 403 challenge named, a scope set larger than the first request's, and
\* only then is the same tool called again with the same arguments.
C2_SecondAuthorizationAsksForChallengeScope ==
    (IsStepUpRun /\ Len(authLog) >= 2)
    => /\ Rejections # {}
       /\ LET r == CHOOSE i \in Rejections : TRUE IN
          /\ callLog[r].scope \in authLog[2].scopes
          /\ authLog[1].scopes \subseteq authLog[2].scopes
          /\ authLog[1].scopes # authLog[2].scopes
          /\ Len(callLog) > r =>
                /\ Len(callLog) = r + 1
                /\ callLog[r + 1].name = callLog[r].name
                /\ callLog[r + 1].arguments = callLog[r].arguments
                /\ callLog[r + 1].session = 2
                /\ authLog[2].exchanged

IsProgressCall ==
    program = "server" /\ request.some /\ request.val.name = "test_tool_with_progress"

\* what a notify_* call put on the wire, without the outcome of the send
Sent(n) == [k \in (DOMAIN n) \ {"delivered"} |-> n[k]]

ProgressNotification(t, progress, message) ==
    [method |-> "notifications/progress", progress_token |-> t, progress |-> progress,
     total |-> Some(100), message |-> Some(message)]

IsPrefix(s, t) == Len(s) <= Len(t) /\ \A i \in 1..Len(s) : s[i] = t[i]

\* C3: a tools/call of test_tool_with_progress with progress token t makes the
\* handler emit exactly three notifications/progress with token t and progress 0, 50,
\* 100 in that order, all before 'Progress test completed' is returned; without a
\* token no notification is emitted and the same result is returned.
C3_ProgressNotificationsBeforeResult ==
    IsProgressCall =>
        LET t == request.val.progress_token
            sent == [i \in 1..Len(notifications) |-> Sent(notifications[i])]
        IN /\ IF t.some
              THEN IsPrefix(sent, << ProgressNotification(t.val, 0, "Starting"),
                                     ProgressNotification(t.val, 50, "Halfway"),
                                     ProgressNotification(t.val, 100, "Complete") >>)
              ELSE sent = << >>
           /\ response.tag # "Pending" =>
                /\ response = Ok(CallToolResult(<<Text(<<"Progress test completed">>)>>, None))
                /\ t.some => Len(sent) = 3

C3_Witness ==
    /\ IsProgressCall /\ spc = "done"
    /\ request.val.progress_token = Some("t1")
    /\ Len(notifications) = 3
    /\ response.tag = "Ok"

TransportClosed == Err(ErrorData("transport", Str("closed")))

\* the form elicitation request the defaults handler has answered
DefaultsHandlerAnswered ==
    /\ peer = "ElicitationDefaultsClientHandler"
    /\ nested.some /\ nested.val.method = "elicitation/create" /\ nested.val.kind = "form"
    /\ answer.some /\ answer.val # TransportClosed

CarriesDefault(prop) == "default" \in DOMAIN prop /\ prop.default.some

\* the JSON value of the default of a property that carries one
DefaultAsJson(prop) ==
    CASE prop.kind = "String"  -> [t |-> "string", v |-> prop.default.val]
      [] prop.kind = "Number"  -> [t |-> "number", v |-> prop.default.val]
      [] prop.kind = "Integer" -> [t |-> "integer", v |-> prop.default.val]
      [] prop.kind = "Boolean" -> [t |-> "bool", v |-> prop.default.val]
      [] prop.kind \in {"EnumSingleUntitled", "EnumSingleTitled"} ->
            [t |-> "string", v |-> prop.default.val]
      [] prop.kind \in {"EnumMultiUntitled", "EnumMultiTitled"} ->
            [t |-> "array",
             v |-> [i \in 1..Len(prop.default.val) |-> [t |-> "string", v |-> prop.default.val[i]]]]

\* C4: for every form elicitation request the defaults handler returns action=accept
\* with a content object whose keys are exactly the schema properties that carry a
\* default, each mapped to that default; properties without a default are absent.
C4_DefaultsFilled ==
    DefaultsHandlerAnswered =>
        LET schema == nested.val.requested_schema
            a == answer.val
        IN /\ a.tag = "Ok"
           /\ a.val.action = "accept"
           /\ a.val.content.some
           /\ a.val.content.val.t = "object"
           /\ DOMAIN a.val.content.val.v = { n \in DOMAIN schema : CarriesDefault(schema[n]) }
           /\ \A n \in DOMAIN a.val.content.val.v :
                a.val.content.val.v[n] = DefaultAsJson(schema[n])

C4_Witness ==
    /\ program = "client_handler" /\ DefaultsHandlerAnswered
    /\ nested.val.requested_schema =
          [n \in {"name", "status"} |->
              IF n = "name" THEN [kind |-> "String", default |-> None]
              ELSE [kind |-> "EnumMultiTitled", default |-> Some(<<"value1", "value3">>)]]
    /\ DOMAIN answer.val.val.content.val.v = {"status"}

PostIsRequest == program = "http" /\ post # None /\ post.frame.kind = "request"

\* a POST of a request that the server has answered with a result
RequestAnswered == PostIsRequest /\ http_response.status = 200

\* C5: in stateless mode with json_response=true a POST of a request is answered
\* with 200, Content-Type application/json and a body that is one JSON-RPC response
\* frame with the request's id and a result object, without SSE framing.
C5_StatelessJsonResponse ==
    (PostIsRequest /\ ~config.stateful_mode /\ config.json_response)
    => /\ http_response.status = 200
       /\ http_response.content_type = Some("application/json")
       /\ http_response.body.kind = "json"
       /\ http_response.body.frame.jsonrpc = "2.0"
       /\ http_response.body.frame.kind = "response"
       /\ http_response.body.frame.id = post.frame.id
       /\ http_response.body.frame.result.t = "object"

C5_Witness ==
    /\ RequestAnswered /\ ~config.stateful_mode /\ config.json_response
    /\ post.frame.method = "initialize" /\ post.frame.id = 1
    /\ http_response.body.kind = "json"

\* C6: in stateless mode with json_response=false a POST of a request is answered
\* with 200 and Content-Type text/event-stream, the response frame delivered as an
\* SSE data: event, also when the handler produced no server-initiated events.
C6_StatelessSse ==
    (PostIsRequest /\ ~config.stateful_mode /\ ~config.json_response)
    => /\ http_response.status = 200
       /\ http_response.content_type = Some("text/event-stream")
       /\ http_response.body.kind = "sse"
       /\ LET events == http_response.body.events IN
          /\ Len(events) >= 1
          /\ events[Len(events)].data.kind = "response"
          /\ events[Len(events)].data.id = post.frame.id

C6_Witness ==
    /\ RequestAnswered /\ ~config.stateful_mode /\ ~config.json_response
    /\ post.events = 0
    /\ http_response.content_type = Some("text/event-stream")

\* C7: in stateful mode json_response has no effect, a POST of a request is answered
\* with text/event-stream for both values; the content type of a response is
\* application/json if and only if the server is stateless and json_response=true.
C7_JsonOnlyWhenStatelessAndAsked ==
    RequestAnswered =>
        /\ http_response.content_type \in {Some("application/json"), Some("text/event-stream")}
        /\ (http_response.content_type = Some("application/json"))
              <=> (~config.stateful_mode /\ config.json_response)
        /\ config.stateful_mode =>
              /\ http_response.content_type = Some("text/event-stream")
              /\ http_response.body.kind = "sse"

C7_Witness ==
    /\ RequestAnswered /\ config.stateful_mode /\ config.json_response
    /\ http_response.content_type = Some("text/event-stream")

\* C8: call_tool returns a protocol-level error (Err, invalid params) only when the
\* tool name is not one of the server's tools; for every tool it knows it returns a
\* successful CallToolResult, with is_error=true exactly for test_error_handling or
\* when the nested sampling/elicitation call to the client failed.
C8_TwoFailureForms ==
    (program = "server" /\ spc = "done") =>
        LET name == request.val.name IN
        /\ response.tag \in {"Ok", "Err"}
        /\ (response.tag = "Err") <=> (name \notin ListedNames)
        /\ response.tag = "Err" => response.err.code = "invalid_params"
        /\ response.tag = "Ok" =>
              /\ response.val.is_error \in {None, Some(TRUE)}
              /\ (response.val.is_error = Some(TRUE))
                    <=> (name = "test_error_handling" \/ (answer.some /\ answer.val.tag = "Err"))

C8_Witness ==
    /\ program = "server" /\ spc = "done"
    /\ request.val.name = "test_sampling"
    /\ answer.some /\ answer.val.tag = "Err"
    /\ response.tag = "Ok" /\ response.val.is_error = Some(TRUE)

\* what T::invoke returns for the parameters of the run
Invoked(w) == IF w = "sync" THEN tool.sync[param] ELSE tool.async[param]

\* C9: sync_tool_wrapper and async_tool_wrapper return Ok(Json(o)) exactly when
\* invoke returns Ok(o), and Err(e') exactly when invoke returns Err(e), e' being
\* the ErrorData the tool's Into<ErrorData> makes of e (code and message kept).
C9_WrappersKeepTheResult ==
    program = "tool_traits" =>
        \A w \in {"sync", "async"} :
            wrapped[w].tag # "Pending" =>
                /\ wrapped[w].tag = Invoked(w).tag
                /\ wrapped[w].tag = "Ok" => wrapped[w].val = [json |-> Invoked(w).val]
                /\ wrapped[w].tag = "Err" =>
                      /\ wrapped[w].err = Into(tool.error_type, Invoked(w).err)
                      /\ Invoked(w).err = "Internal" =>
                            wrapped[w].err = [code |-> "internal_error", message |-> <<"internal error">>]
                      /\ Invoked(w).err = "InvalidParams" =>
                            wrapped[w].err = [code |-> "invalid_params", message |-> <<"invalid params">>]

C9_Witness ==
    /\ program = "tool_traits" /\ tool = EmptyTool
    /\ wrapped["sync"] = Err([code |-> "internal_error", message |-> <<"internal error">>])
    /\ wrapped["async"] = Err([code |-> "invalid_params", message |-> <<"invalid params">>])

\* C10: for a tool whose SyncTool::invoke and AsyncTool::invoke compute the same
\* function, sync_tool_wrapper and the awaited async_tool_wrapper yield the same
\* Result for every parameter, and so do the two *_with_empty_params wrappers.
C10_SyncIsSpecialCaseOfAsync ==
    (program = "tool_traits" /\ tool.sync = tool.async) =>
        /\ (wrapped["sync"].tag # "Pending" /\ wrapped["async"].tag # "Pending")
              => wrapped["sync"] = wrapped["async"]
        /\ (wrapped["sync_empty"].tag # "Pending" /\ wrapped["async_empty"].tag # "Pending")
              => wrapped["sync_empty"] = wrapped["async_empty"]

C10_Witness ==
    /\ program = "tool_traits" /\ tool.sync = tool.async
    /\ tool.name = "table" /\ param # tool.default
    /\ wrapped["sync"].tag = "Err" /\ wrapped["async"].tag = "Err"
    /\ wrapped["sync_empty"].tag = "Ok" /\ wrapped["async_empty"].tag = "Ok"

\* the calls of T::invoke wrapper w has made
InvokedBy(w) == { i \in 1..Len(invoked) : invoked[i].wrapper = w }

\* Parameter::default() of the tool of the run
ParameterDefault ==
    CASE tool.name = "adder" -> [left |-> <<0, 0, 0, 0>>, right |-> <<0, 0, 0, 0>>]
      [] tool.name = "empty" -> "unit"
      [] tool.name = "table" -> 0

IsErrorData(e) ==
    /\ DOMAIN e = {"code", "message"}
    /\ e.code \in {"internal_error", "invalid_params"}

\* C11: a wrapper with empty parameters calls the tool's invoke exactly once, with
\* Parameter::default(), and returns Ok(Json(output)) or an ErrorData value, never
\* anything else (no panic of its own).
C11_EmptyParamsInvokeOnceWithDefault ==
    program = "tool_traits" =>
        \A w \in {"sync_empty", "async_empty"} :
            LET out == IF w = "sync_empty" THEN tool.sync[ParameterDefault]
                       ELSE tool.async[ParameterDefault]
            IN IF wrapped[w].tag = "Pending"
               THEN InvokedBy(w) = {}
               ELSE /\ Cardinality(InvokedBy(w)) = 1
                    /\ \A i \in InvokedBy(w) : invoked[i].param = ParameterDefault
                    /\ wrapped[w].tag \in {"Ok", "Err"}
                    /\ wrapped[w].tag = out.tag
                    /\ wrapped[w].tag = "Ok" => wrapped[w].val = [json |-> out.val]
                    /\ wrapped[w].tag = "Err" => IsErrorData(wrapped[w].err)

C11_Witness ==
    /\ program = "tool_traits" /\ tool.name = "table"
    /\ tool.sync[0] = [tag |-> "Err", err |-> "InvalidParams"]
    /\ tool.async[0] = [tag |-> "Ok", val |-> 1]
    /\ param = 1
    /\ wrapped["sync_empty"].tag = "Err" /\ wrapped["async_empty"].tag = "Ok"
    /\ Len(invoked) = 2

\* C12: tool_attribute::<T>() takes every field of the Tool from the ToolBase method
\* of the same name; the input schema is always there, the empty-input object schema
\* when T::input_schema() is None, while an output schema of None stays absent; the
\* record equals the one the #[tool] macro generates for the same method.
C12_ToolAttributeFillsEveryField ==
    (program = "tool_attribute" /\ attr.some) =>
        /\ \A f \in {"name", "title", "description", "output_schema", "annotations",
                     "execution", "icons", "meta"} : attr.val[f] = base[f]
        /\ attr.val.input_schema =
              (IF base.input_schema = None THEN [type |-> "object", of |-> "()"]
               ELSE base.input_schema.val)
        /\ base.output_schema = None => attr.val.output_schema = None
        /\ macro_attr.some => attr.val = macro_attr.val

C12_Witness ==
    /\ program = "tool_attribute" /\ base = EmptyToolBase
    /\ attr.some /\ macro_attr.some
    /\ attr.val.input_schema = [type |-> "object", of |-> "()"]
    /\ attr.val.output_schema = None

\* n + 300 for a 64-bit n in 16-bit limbs, by cases on the carry
Plus300(n) ==
    IF n[1] + 300 < 65536 THEN <<n[1] + 300, n[2], n[3], n[4]>>
    ELSE IF n[2] < 65535 THEN <<n[1] + 300 - 65536, n[2] + 1, n[3], n[4]>>
    ELSE IF n[3] < 65535 THEN <<n[1] + 300 - 65536, 0, n[3] + 1, n[4]>>
    ELSE <<n[1] + 300 - 65536, 0, 0, n[4] + 1>>

\* C13: every JWT assertion openssl_free_ec_sign builds has header alg=ES256,
\* typ=JWT, claims iss = sub = the client id, aud = the discovered token endpoint and
\* exp = iat + 300, whatever signing_algorithm the context names, and is three
\* base64url parts joined by dots, the third the signature over 'header.payload'.
C13_JwtAssertionClaims ==
    (program = "jwt" /\ assertion.tag = "Ok") =>
        LET jwt == assertion.val IN
        /\ Len(jwt) = 5 /\ jwt[2] = "." /\ jwt[4] = "."
        /\ \A i \in {1, 3, 5} : DOMAIN jwt[i] = {"base64url"}
        /\ jwt[1].base64url = [alg |-> "ES256", typ |-> "JWT"]
        /\ LET claims == jwt[3].base64url IN
           /\ claims.iss = (IF ctx.client_id = None THEN "conformance-test-client"
                            ELSE ctx.client_id.val)
           /\ claims.sub = claims.iss
           /\ claims.aud = token_endpoint.val
           /\ claims.exp = Plus300(claims.iat)
        /\ jwt[5].base64url.over = <<jwt[1], ".", jwt[3]>>
        /\ posted # None => posted.val.client_assertion = jwt /\ posted.val.url = token_endpoint.val

C13_Witness ==
    /\ program = "jwt" /\ assertion.tag = "Ok"
    /\ ctx.signing_algorithm = Some("RS256")
    /\ assertion.val[3].base64url.iat = <<65300, 65535, 0, 0>>
    /\ assertion.val[3].base64url.exp = <<64, 0, 1, 0>>
    /\ posted # None

\* the errors the `?` of a remote step of the scope runners returns
StepErrors ==
    {"OAuthState::new failed", "start_authorization failed", "get_authorization_url failed",
     "No Location header in auth redirect", "No code in redirect URL",
     "No state in redirect URL", "authorization request failed", "token exchange failed",
     "serve failed", "tools/list failed", "cancel failed"}

\* the rounds (sessions) in which a tool call failed
RoundsWithRejection == { callLog[i].session : i \in Rejections }

\* C14: run_auth_scope_retry_limit_client always terminates when each remote step
\* returns; it starts at most 3 authorization flows, returns Ok exactly when a round
\* finishes with no failing tool call and otherwise 'Scope retry limit reached' (or
\* the error of the step that failed); it never loops forever on a server that
\* always answers 403.
C14_RetryLimitTerminates ==
    /\ [](IsRetryLimitRun =>
            /\ Len(authLog) <= 3
            /\ attempt <= 3
            /\ result \in {"pending", "Ok", "Scope retry limit reached"} \cup StepErrors
            /\ (result = "Ok") <=>
                  (/\ pc = "done" /\ sessions # << >>
                   /\ sessions[Len(sessions)] = "closed"
                   /\ Len(sessions) \notin RoundsWithRejection)
            /\ (result = "Scope retry limit reached") <=>
                  (/\ pc = "done" /\ Len(authLog) = 3
                   /\ sessions = <<"closed", "closed", "closed">>
                   /\ RoundsWithRejection = {1, 2, 3}))
    /\ (IsRetryLimitRun ~> (result # "pending"))

C14_Witness ==
    /\ IsRetryLimitRun
    /\ result = "Scope retry limit reached"
    /\ Len(authLog) = 3
    /\ \A i \in 1..Len(callLog) : callLog[i].status = "forbidden"

-----------------------------------------------------------------------------
(* C15 *)

IsAuthCodeRun == program = "client" /\ scenario \in Scenarios

\* the steps of one authorization-code flow, in the order the claim gives them
FlowOrder == <<"new", "discover", "authorization_url", "redirect", "token_exchange">>

McpRequests == {"initialize", "tools/list", "tools/call"}

\* the errors of the steps that come before the MCP transport is made
FlowErrors ==
    {"Missing client_id in context", "Missing client_secret in context",
     "OAuthState::new failed", "AuthorizationManager::new failed",
     "start_authorization failed", "discover_metadata failed", "configure_client failed",
     "get_authorization_url failed", "authorization request failed",
     "No Location header in auth redirect", "No code in redirect URL",
     "No state in redirect URL", "No Location header", "No code", "No state",
     "token exchange failed"}

\* the position of the last "new" of the trace (0 if there is none)
LastFlowStart ==
    LET news == { i \in 1..Len(trace) : trace[i] = "new" }
    IN IF news = {} THEN 0 ELSE CHOOSE i \in news : \A j \in news : j <= i

\* C15: in every authorization-code runner the calls go discover/register, build the
\* authorization URL, obtain the callback, exchange the token, and only then the first
\* MCP request; no MCP request is sent on a transport before that transport's token
\* exchange has succeeded, and a failure in any earlier step returns the error without
\* making the MCP transport.
C15_TokenExchangeBeforeMcp ==
    IsAuthCodeRun =>
        /\ \A i \in 1..Len(trace) :
              trace[i] = "initialize" =>
                 /\ i > Len(FlowOrder)
                 /\ SubSeq(trace, i - Len(FlowOrder), i - 1) = FlowOrder
        /\ \A i \in 1..Len(trace) :
              trace[i] \in McpRequests \ {"initialize"} =>
                 \E j \in 1..(i - 1) :
                    /\ trace[j] = "initialize"
                    /\ \A k \in j..i : trace[k] # "new"
        /\ \A k \in 1..Len(sessions) : authLog[k].exchanged
        /\ \A i \in 1..Len(callLog) : callLog[i].session \in 1..Len(sessions)
        /\ result \in FlowErrors =>
              /\ \A i \in 1..Len(trace) : i > LastFlowStart => trace[i] \notin McpRequests
              /\ \A k \in 1..Len(sessions) : sessions[k] = "closed"

C15_Witness ==
    /\ program = "client" /\ scenario = "auth/pre-registration"
    /\ result = "Ok"
    /\ Len(callLog) >= 1
    /\ authLog[1].exchanged

-----------------------------------------------------------------------------
(* C16 *)

\* the errors of a redirect that lacks the Location header, the code or the state
RedirectErrors ==
    {"No Location header in auth redirect", "No code in redirect URL",
     "No state in redirect URL", "No Location header", "No code", "No state"}

\* the redirect of round k carries a Location with both a code and a state
CompleteRedirect(k) ==
    /\ authLog[k].redirect # None
    /\ authLog[k].redirect.val # None
    /\ authLog[k].redirect.val.val.code # None
    /\ authLog[k].redirect.val.val.state # None

TokenExchanges == { i \in 1..Len(trace) : trace[i] = "token_exchange" }

\* C16: a token exchange is attempted only with a code and a state that both come from
\* the Location header of the same authorization redirect; when the redirect has no
\* Location header, no code or no state, the flow returns an error and handle_callback /
\* exchange_code_for_token is not called.
C16_ExchangeOnlyWithRedirectCodeAndState ==
    IsAuthCodeRun =>
        /\ \A k \in 1..Len(authLog) :
              authLog[k].callback # None =>
                 /\ CompleteRedirect(k)
                 /\ authLog[k].callback.val.code = authLog[k].redirect.val.val.code.val
                 /\ authLog[k].callback.val.state = authLog[k].redirect.val.val.state.val
        /\ Cardinality(TokenExchanges)
              = Cardinality({ k \in 1..Len(authLog) : authLog[k].callback # None })
        /\ \A k \in 1..Len(authLog) :
              (authLog[k].redirect # None /\ ~CompleteRedirect(k)) =>
                 /\ k = Len(authLog)
                 /\ authLog[k].callback = None
                 /\ result \in RedirectErrors
                 /\ trace[Len(trace)] = "redirect"
        /\ result \in RedirectErrors =>
              /\ ~CompleteRedirect(Len(authLog))
              /\ authLog[Len(authLog)].callback = None

C16_Witness ==
    /\ program = "client" /\ scenario = "auth/scope-step-up"
    /\ Len(authLog) = 2
    /\ authLog[2].callback # None
    /\ authLog[2].callback.val.code = <<"code", 2>>

-----------------------------------------------------------------------------
(* C17 *)

IsLoggingCall ==
    program = "server" /\ request.some /\ request.val.name = "test_tool_with_logging"

\* the notify_* calls that failed
Lost == { i \in 1..Len(notifications) : ~notifications[i].delivered }

\* C17: the loss of a notification is never fatal: in test_tool_with_progress and
\* test_tool_with_logging, when any or all of the notify calls fail, the handler still
\* makes the remaining ones and returns a successful CallToolResult (is_error unset).
C17_NotificationLossNotFatal ==
    (IsProgressCall \/ IsLoggingCall) =>
        /\ response.tag # "Err"
        /\ (Lost # {} /\ Len(notifications) < 3) =>
              /\ response = Pending
              /\ spc \in {"progress", "logging"}
        /\ spc = "done" =>
              /\ response.tag = "Ok"
              /\ response.val.is_error = None
              /\ (IsLoggingCall \/ request.val.progress_token.some) =>
                    Len(notifications) = 3

C17_Witness ==
    /\ IsProgressCall /\ spc = "done"
    /\ Len(notifications) = 3
    /\ Lost = 1..3
    /\ response.tag = "Ok"

-----------------------------------------------------------------------------
(* C18 *)

LoggingNotification(msg) ==
    [method |-> "notifications/message", level |-> "info",
     logger |-> Some("conformance-server"), data |-> JString(msg)]

\* C18: test_tool_with_logging issues exactly three logging notifications, at level
\* info, with data 'Tool execution started', 'Tool processing data' and 'Tool execution
\* completed' in that order, and each of them is completed before the handler returns
\* 'Logging test completed'.
C18_ThreeLoggingNotificationsInOrder ==
    IsLoggingCall =>
        LET sent == [i \in 1..Len(notifications) |-> Sent(notifications[i])]
        IN /\ IsPrefix(sent, << LoggingNotification("Tool execution started"),
                                LoggingNotification("Tool processing data"),
                                LoggingNotification("Tool execution completed") >>)
           /\ response.tag # "Pending" =>
                /\ response = Ok(CallToolResult(<<Text(<<"Logging test completed">>)>>, None))
                /\ Len(sent) = 3
           /\ Len(sent) < 3 => response = Pending

C18_Witness ==
    /\ IsLoggingCall /\ spc = "done"
    /\ Len(notifications) = 3
    /\ notifications[3].data = JString("Tool execution completed")
    /\ response.tag = "Ok"

-----------------------------------------------------------------------------
(* C19 *)

IsSamplingCall == program = "server" /\ request.some /\ request.val.name = "test_sampling"

SamplingPrompt == ArgStrOr(request.val, "prompt", "Hello")

\* C19: test_sampling sends a nested sampling/createMessage request while its tools/call
\* is pending; the tools/call response is never sent before the nested request was
\* answered; the call always completes once the client answers; against
\* FullClientHandler the text is 'LLM response: This is a mock LLM response to: <prompt>'.
C19_SamplingNestedBeforeResponse ==
    /\ [](IsSamplingCall =>
            /\ nested.some
            /\ nested.val.method = "sampling/createMessage"
            /\ nested.val.messages[1].content = <<Text(<<SamplingPrompt>>)>>
            /\ answer = None => (response = Pending /\ spc = "await_client")
            /\ response # Pending => (answer.some /\ response.tag = "Ok")
            /\ (peer = "FullClientHandler" /\ answer.some /\ answer.val.tag = "Ok") =>
                  response = Ok(CallToolResult(
                      <<Text(<<"LLM response: ", "This is a mock LLM response to: ",
                               SamplingPrompt>>)>>, None)))
    /\ (IsSamplingCall /\ spc = "await_client")
          ~> (IsSamplingCall /\ answer.some /\ response.tag = "Ok")

C19_Witness ==
    /\ IsSamplingCall /\ peer = "FullClientHandler"
    /\ request.val.arguments.some
    /\ SamplingPrompt # "Hello"
    /\ answer.some /\ answer.val.tag = "Ok"
    /\ response.tag = "Ok" /\ response.val.is_error = None

-----------------------------------------------------------------------------
(* C20 *)

\* the runner has decoded the PEM and called extract_ec_private_key on the DER
KeyExtracted ==
    /\ program = "jwt" /\ assertion # Pending
    /\ ctx.private_key_pem.val.base64

KeyDer == ctx.private_key_pem.val.der

\* the indices (1-based) the claim names: a 0x04 0x20 pair with 32 octets after it
PairIndices(der) ==
    { i \in 1..Len(der) : i + 33 <= Len(der) /\ der[i] = 4 /\ der[i + 1] = 32 }

\* reading DER: the element at p has its content at ElemStart and ends before ElemNext
LongLen(der, p) == IF der[p + 1] < 128 THEN 0 ELSE der[p + 1] - 128

ElemStart(der, p) == p + 2 + LongLen(der, p)

ElemLen(der, p) ==
    CASE LongLen(der, p) = 0 -> der[p + 1]
      [] LongLen(der, p) = 1 -> der[p + 2]
      [] OTHER -> der[p + 2] * 256 + der[p + 3]

ElemNext(der, p) == ElemStart(der, p) + ElemLen(der, p)

IsElem(der, p, tag) == p >= 1 /\ p + 3 <= Len(der) /\ der[p] = tag

\* where the privateKey OCTET STRING of the ECPrivateKey inside the PrivateKeyInfo
\* begins: PrivateKeyInfo { version, algorithm, OCTET STRING { ECPrivateKey
\* { version, OCTET STRING privateKey, .. } } }; 0 when der is no such structure
Pkcs8KeyElem(der) ==
    IF ~IsElem(der, 1, 48) THEN 0
    ELSE LET version == ElemStart(der, 1) IN
      IF ~IsElem(der, version, 2) THEN 0
      ELSE LET algorithm == ElemNext(der, version) IN
        IF ~IsElem(der, algorithm, 48) THEN 0
        ELSE LET octets == ElemNext(der, algorithm) IN
          IF ~IsElem(der, octets, 4) THEN 0
          ELSE LET ec == ElemStart(der, octets) IN
            IF ~IsElem(der, ec, 48) THEN 0
            ELSE LET ec_version == ElemStart(der, ec) IN
              IF ~IsElem(der, ec_version, 2) THEN 0
              ELSE LET private_key == ElemNext(der, ec_version) IN
                IF IsElem(der, private_key, 4) /\ ElemLen(der, private_key) = 32
                   /\ ElemNext(der, private_key) - 1 <= Len(der)
                THEN private_key ELSE 0

\* the private-key octet string of the PKCS#8 structure
Pkcs8PrivateKey(der) ==
    SubSeq(der, ElemStart(der, Pkcs8KeyElem(der)), ElemNext(der, Pkcs8KeyElem(der)) - 1)

ExtractError == Err("Could not extract 32-byte EC private key from PKCS#8 DER")

\* the first half of the claim: 32 octets after the first pair, an error iff no pair
FirstPairReturned ==
    LET der == KeyDer
        r == extract_ec_private_key(der)
    IN /\ r.tag = "Err" <=> PairIndices(der) = {}
       /\ assertion = ExtractError <=> PairIndices(der) = {}
       /\ r.tag = "Ok" =>
             /\ Len(r.val) = 32
             /\ \E i \in PairIndices(der) :
                   /\ \A j \in PairIndices(der) : i <= j
                   /\ r.val = [k \in 1..32 |-> der[i + 1 + k]]
       /\ assertion.tag = "Ok" => assertion.val[5].base64url.signed_by = r.val

-----------------------------------------------------------------------------
(* C21 *)

\* C21: each client assertion issued by openssl_free_ec_sign carries a jti distinct
\* from the jti of every other assertion issued for the same client id, two assertions
\* built within the same second included.
C21_JtiDistinctPerClient ==
    program = "jwt" =>
        \A i, j \in 1..Len(issued) :
            (i # j /\ issued[i].iss = issued[j].iss) => issued[i].jti # issued[j].jti

-----------------------------------------------------------------------------
(* C22 *)

\* the characters of s between a prefix of n characters and a suffix of m characters
Between(s, n, m) == SubSeq(s, n + 1, Len(s) - m)

ReadAnswered == program = "resources" /\ read_request # None

\* C22: read_resource answers the two static URIs with their fixed contents; for any
\* other URI that starts with 'test://template/' and ends with '/data' it returns JSON
\* text whose id is exactly the substring between that prefix and that suffix, the case
\* where prefix and suffix overlap ('test://template/data') included; every remaining
\* URI yields the resource-not-found error and never a success.
C22_ReadResourceByUri ==
    ReadAnswered =>
        LET uri == read_request.val
            r == read_response
        IN IF uri = StaticTextUri
           THEN r = Ok(<<[kind |-> "text", uri |-> uri, mime_type |-> Some("text/plain"),
                          text |-> Str("This is the content of the static text resource.")]>>)
           ELSE IF uri = StaticBinaryUri
           THEN r = Ok(<<[kind |-> "blob", uri |-> uri, mime_type |-> Some("image/png"),
                          blob |-> "TEST_IMAGE_DATA"]>>)
           ELSE IF /\ Len(uri) >= 16 /\ SubSeq(uri, 1, 16) = TemplatePrefix
                   /\ SubSeq(uri, Len(uri) - 4, Len(uri)) = TemplateSuffix
           THEN /\ r.tag = "Ok"
                /\ r.val[1].kind = "text"
                /\ r.val[1].mime_type = Some("application/json")
                /\ r.val[1].text[2] = Between(uri, 16, 5)
                /\ r.val[1].text[4] = Between(uri, 16, 5)
           ELSE /\ r.tag = "Err"
                /\ r.err.code = "resource_not_found"

-----------------------------------------------------------------------------
(* C24 *)

\* the completed calls that name uri
CallsFor(uri) == { i \in 1..Len(completed) : completed[i].uri = uri }

\* the last completed call for uri was a subscribe
LastWasSubscribe(uri) ==
    /\ CallsFor(uri) # {}
    /\ LET last == CHOOSE i \in CallsFor(uri) : \A j \in CallsFor(uri) : j <= i
       IN completed[last].kind = "subscribe"

\* C24: the subscription set is one set shared by all sessions and guarded by a mutex:
\* after any interleaving of subscribe and unsubscribe calls from any sessions a URI is
\* in the set exactly when the last completed call for that URI, from whichever session,
\* was a subscribe; subscribe is idempotent, unsubscribe of an absent URI is a no-op,
\* and both always return Ok.
C24_SubscriptionsFollowLastCall ==
    program = "resources" =>
        /\ \A uri \in SubscriptionUris : uri \in subscriptions <=> LastWasSubscribe(uri)
        /\ subscriptions \subseteq SubscriptionUris
        /\ \A i \in 1..Len(completed) : completed[i].result = [tag |-> "Ok", val |-> "()"]
        /\ lock # None => ops[lock.val] # None

C24_Witness ==
    /\ program = "resources"
    /\ Len(completed) = 3
    /\ completed[1].kind = "subscribe" /\ completed[1].session = "s1"
    /\ completed[2].kind = "unsubscribe" /\ completed[2].session = "s2"
    /\ completed[3].kind = "unsubscribe"
    /\ completed[1].uri = completed[2].uri /\ completed[2].uri = completed[3].uri
    /\ subscriptions = {}

-----------------------------------------------------------------------------
(* C23 *)

IsClientRun == program = "client"

\* the cancel() calls the runner has made
Cancels == { i \in 1..Len(trace) : trace[i] = "close" }

\* no request follows a cancel() on the same session: what comes after a cancel, if
\* anything, belongs to the next authorization round
NothingAfterCancel ==
    \A i \in Cancels : i < Len(trace) => trace[i + 1] \notin {"tools/list", "tools/call", "close"}

\* the errors a runner returns with `?` while its session is open
OpenSessionErrors == {"tools/list failed", "tools/call failed"}

\* C23 as stated: whenever a runner returns Ok, every MCP session it opened has been
\* closed with cancel() exactly once and no request is sent on a session after its
\* cancel(); on the error return paths (tools/list fails, a tool call fails in
\* run_tools_call_client) the session is likewise closed before the runner returns.
C23_SessionsClosedOnEveryReturn ==
    IsClientRun =>
        /\ NothingAfterCancel
        /\ result = "Ok" =>
              /\ Cardinality(Cancels) = Len(sessions)
              /\ \A k \in 1..Len(sessions) : sessions[k] = "closed"
        /\ result \in OpenSessionErrors => Cardinality(Cancels) = Len(sessions)

\* C23, amended: whenever a runner returns Ok, every MCP session it opened has been
\* closed with cancel() exactly once and no request is sent on a session after its
\* cancel(); a runner that returns the error of tools/list or of a tool call (the `?`
\* of run_tools_call_client and of the runners that look for one tool) returns without
\* calling cancel() on the session it has open; the retry-limit error is returned
\* after the cancel().
C23_SessionsClosedOnOk ==
    IsClientRun =>
        /\ NothingAfterCancel
        /\ Cardinality(Cancels) <= Len(sessions)
        /\ result = "Ok" =>
              /\ Cardinality(Cancels) = Len(sessions)
              /\ \A k \in 1..Len(sessions) : sessions[k] = "closed"
        /\ result \in OpenSessionErrors =>
              /\ Cardinality(Cancels) = Len(sessions) - 1
              /\ sessions[Len(sessions)] = "open"
        /\ result = "Scope retry limit reached" => Cardinality(Cancels) = Len(sessions)

C23_Witness ==
    /\ IsClientRun /\ scenario = "tools_call"
    /\ result = "tools/call failed" /\ exit = "tools/call failed"
    /\ Len(callLog) = 2
    /\ sessions = <<"open">>
    /\ Cancels = {}

\* the answer of the fallback arm of call_tool
UnknownToolError(name) == Err(ErrorData("invalid_params", <<"Unknown tool: ", name>>))

\* C25: list_tools and the dispatcher of call_tool agree: an answered
\* tools/call is the 'Unknown tool' invalid-params error exactly when the
\* requested name is not one list_tools returns; so no listed tool is
\* unknown to the dispatcher and no tool that can be called is unlisted.
C25_ListedIffDispatched ==
    (program = "server" /\ request.some /\ response # Pending)
        => ((response = UnknownToolError(request.val.name))
                <=> (request.val.name \notin ListedNames))

\* the last listed tool has been called and has answered with its result
C25_Witness ==
    /\ program = "server" /\ request.some
    /\ request.val.name = list_tools[Len(list_tools)]
    /\ response = Ok(CallToolResult(<<Text(Str("Reconnection test completed"))>>, None))

\* C26: a run of the scope step-up runner re-authorizes at most once and
\* retries at most one tool call: at the first failing call the first session
\* is closed, the flow is run again, only that tool is called again (same name,
\* same arguments) on the new session, and the runner then returns Ok whatever
\* the retry gave; the tools after the failing one are never called.
C26_OneStepUpOneRetry ==
    IsStepUpRun =>
        /\ Len(authLog) <= 2 /\ Len(sessions) <= 2
        /\ Len(authLog) = 2 =>
                /\ callLog # << >>
                /\ sessions[1] = "closed"
        /\ \A i \in 1..Len(callLog) :
            /\ callLog[i].session = 1 =>
                    /\ callLog[i].name = tools[i].name
                    /\ callLog[i].status # "ok" =>
                            /\ \A j \in 1..(i - 1) : callLog[j].status = "ok"
                            /\ sessions[1] = "closed"
                            /\ Len(callLog) <= i + 1
            /\ callLog[i].session = 2 =>
                    /\ i = Len(callLog) /\ i > 1
                    /\ callLog[i - 1].session = 1
                    /\ callLog[i - 1].status # "ok"
                    /\ callLog[i].name = callLog[i - 1].name
                    /\ callLog[i].arguments = callLog[i - 1].arguments
                    /\ Len(authLog) = 2
                    /\ sessions = <<"closed", "closed">>
                    /\ pc = "done" /\ result = "Ok"
        /\ (Len(authLog) = 2 \/ Len(sessions) = 2) =>
                callLog[IF Len(sessions) = 2 /\ callLog[Len(callLog)].session = 2
                        THEN Len(callLog) - 1 ELSE Len(callLog)].status # "ok"

\* the first of several tools was rejected, its retry on the second session
\* was rejected too, and the runner has returned Ok without calling the rest
C26_Witness ==
    /\ IsStepUpRun
    /\ Len(tools) >= 2 /\ Len(callLog) = 2
    /\ callLog[1].session = 1 /\ callLog[1].status # "ok"
    /\ callLog[2].session = 2 /\ callLog[2].status # "ok"
    /\ pc = "done" /\ result = "Ok"

IsLenientRun == program = "client" /\ scenario \in LenientScenarios

IsStrictRun == program = "client" /\ scenario = "tools_call"

\* the calls made so far are the first tools of the list, one call each, in order
CallsFollowList ==
    /\ Len(callLog) <= Len(tools)
    /\ \A i \in 1..Len(callLog) :
            callLog[i].name = tools[i].name /\ callLog[i].session = 1

\* C27: run_auth_client, the pre-registered and the client-credentials runner
\* call every listed tool exactly once in list order, a failing call does not
\* stop the loop and the runner's result does not depend on it; in
\* run_tools_call_client the first failing call ends the runner with that
\* error and no later tool is called.
C27_LenientLoopStrictLoop ==
    /\ IsLenientRun =>
            /\ CallsFollowList
            /\ result # "tools/call failed"
            /\ (pc = "done" /\ callLog # << >>) =>
                    /\ Len(callLog) = Len(tools)
                    /\ result \in {"Ok", "cancel failed"}
            /\ result = "Ok" => Len(callLog) = Len(tools)
    /\ IsStrictRun =>
            /\ CallsFollowList
            /\ \A i \in 1..Len(callLog) :
                    callLog[i].status # "ok" =>
                        /\ i = Len(callLog)
                        /\ pc = "done" /\ result = "tools/call failed"
            /\ result = "Ok" => Len(callLog) = Len(tools)

\* run_auth_client has called both tools of a list though the first call
\* failed, and has returned Ok
C27_Witness ==
    /\ IsLenientRun /\ scenario = "auth/basic-cimd"
    /\ Len(tools) = 2 /\ Len(callLog) = 2
    /\ callLog[1].status # "ok"
    /\ pc = "done" /\ result = "Ok"

\* run_tools_call_client has stopped at the first of two tools with its error
C27_StrictWitness ==
    /\ IsStrictRun
    /\ Len(tools) = 2 /\ Len(callLog) = 1
    /\ callLog[1].status # "ok"
    /\ pc = "done" /\ result = "tools/call failed"

IsMismatchRun == program = "client" /\ scenario = "auth/resource-mismatch"

\* C28: in the auth/resource-mismatch scenario main returns Ok whatever
\* run_auth_client returned: when the authorization failed and when the
\* authorization and the session after it succeeded; the other scenarios
\* of the model hand the runner's result on.
C28_MismatchAlwaysSucceeds ==
    (program = "client" /\ exit # "pending") =>
        /\ result # "pending"
        /\ IsMismatchRun => exit = "Ok"
        /\ ~IsMismatchRun => exit = result

\* the authorization failed before any session was opened and main returned Ok
C28_Witness ==
    /\ IsMismatchRun
    /\ result \in FlowErrors /\ sessions = << >>
    /\ exit = "Ok"

\* the authorization and the session went through and main returned Ok
C28_UnexpectedSuccess ==
    /\ IsMismatchRun
    /\ result = "Ok" /\ sessions = <<"closed">>
    /\ exit = "Ok"

\* C29: extract_ec_private_key never indexes outside its input, whatever its
\* length: for every i the loop body runs with, der[i] and der[i + 1] are
\* inside the input and i + 34 <= der.len(), so the third conjunct of the
\* guard is never false and the slice der[i + 2..i + 34] is inside the input.
C29_ScanStaysInside ==
    KeyExtracted =>
        \A i \in Visited(KeyDer) :
            /\ i < Len(KeyDer)
            /\ i + 1 < Len(KeyDer)
            /\ i + 34 <= Len(KeyDer)

\* the scan has returned at the last index of its range, where the slice ends
\* with the last octet of the input
C29_Witness ==
    /\ KeyExtracted
    /\ assertion # ExtractError
    /\ Visited(KeyDer) = 0..1
    /\ Len(KeyDer) = 1 + 34

\* the inputs too short for a key: the loop body never runs and the error is returned
C29_ShortInputs ==
    /\ KeyExtracted
    /\ Len(KeyDer) \in {0, 33}
    /\ Visited(KeyDer) = {}
    /\ assertion = ExtractError

\* the `properties` member of the schema of the tool given, when it is an object
GivenProperties ==
    LET schema == arg_tool.val.input_schema IN
    IF "properties" \in DOMAIN schema /\ schema["properties"].t = "object"
    THEN Some(schema["properties"].v) ELSE None

\* the names the schema of the tool given requires: the strings of its `required` array
GivenRequired ==
    LET schema == arg_tool.val.input_schema IN
    IF "required" \in DOMAIN schema /\ schema["required"].t = "array"
    THEN { e.v : e \in { schema["required"].v[i] : i \in DOMAIN schema["required"].v }
                      \cap [t : {"string"}, v : {"a", "b", "c", "d", "e", "f", "g", "h", "zz"}] }
    ELSE {}

\* the declared type of a property, "" when it has none that is a string
DeclaredType(p) ==
    IF p.t = "object" /\ "type" \in DOMAIN p.v /\ p.v["type"].t = "string"
    THEN p.v["type"].v ELSE ""

\* C30: build_tool_arguments returns None exactly when the schema has no
\* `properties` object, or has empty properties and no required names;
\* otherwise it returns a map whose keys are exactly the required names that
\* are properties, each mapped by the declared type of its property to 1.0,
\* 1, "test", true, or null for any other or missing type.
C30_ArgumentsFromSchema ==
    (program = "build_tool_arguments" /\ arg_tool.some) =>
        /\ (arg_result = None) <=>
                \/ ~GivenProperties.some
                \/ (DOMAIN GivenProperties.val = {} /\ GivenRequired = {})
        /\ arg_result.some =>
                /\ DOMAIN arg_result.val = GivenRequired \cap DOMAIN GivenProperties.val
                /\ \A name \in DOMAIN arg_result.val :
                      LET ty == DeclaredType(GivenProperties.val[name])
                          value == arg_result.val[name]
                      IN /\ ty = "number" => value = JNumber(10)
                         /\ ty = "integer" => value = JInteger(1)
                         /\ ty = "string" => value = JString("test")
                         /\ ty = "boolean" => value = JBool(TRUE)
                         /\ ty \notin {"number", "integer", "string", "boolean"}
                                => value = JNull

\* eight properties of every kind of type, two of them required next to a
\* name that is no property: the map has exactly the two
C30_Witness ==
    /\ program = "build_tool_arguments" /\ arg_tool.some
    /\ GivenProperties.some /\ DOMAIN GivenProperties.val = DOMAIN PropertySchemas
    /\ GivenRequired = {"a", "c", "zz"}
    /\ arg_result = Some([n \in {"a", "c"} |->
                            IF n = "a" THEN JNumber(10) ELSE JString("test")])

\* empty properties with a required name: an empty map, not None
C30_EmptyMap ==
    /\ program = "build_tool_arguments" /\ arg_tool.some
    /\ GivenProperties = Some(<< >>) /\ GivenRequired = {"zz"}
    /\ arg_result = Some(<< >>)

====
